------------------------------ MODULE CrsPath ------------------------------
(***************************************************************************)
(* The CRS of a layer on its way through a conversion: read by the driver  *)
(* of the source, with or without an identifier assumed from outside;      *)
(* admitted into the destination, and what of it the plan announces as     *)
(* lost; written; and read back, with nothing assumed.  Before it, what an *)
(* identifier and a definition say of a CRS (crs.rs, crs_definizione.rs    *)
(* and projjson.rs): its identity, its kind and the order of its axes.     *)
(*                                                                         *)
(* An identifier is <<authority, code>>.  A definition is the tree of its  *)
(* text cut to what is asked of it: the word of the root (of a PROJJSON,   *)
(* its "type") and the children of the root in the order of the text, each *)
(* <<word, first value, second value>>, with "none" for a missing value.  A*)
(* text that is no tree has the root "malformed".                          *)
(*                                                                         *)
(* What a file says is a record of the places its format has:              *)
(*   said  whether the column names a CRS (of a GeoParquet: "absent",      *)
(*         "null", "document", "legacy" or "none", of one without metadata)*)
(*   text  the definition, id the identifier, srid the code of the row     *)
(*   meta  the plenora metadata of the Arrow field, key its geo:crs        *)
(***************************************************************************)
EXTENDS Integers, Sequences, FiniteSets

CONSTANTS
  Strings,        (* what the words of the files are                       *)
  IntegerCodes,   (* the codes that are canonical integers of 32 bits      *)
  NegativeCodes,  (* those of them below 0, which are no SRID of EPSG      *)
  Capitals,       (* of the authorities in other letters: in capitals      *)
  Nil, Declined,  (* no value, and what a check refuses                    *)
  Originals,      (* of each format: the files read                        *)
  Assumable,      (* the identifiers of --assume-crs, and Nil              *)
  Targets         (* the formats written                                   *)

VARIABLES
  original,   (* [format, file], and what is assumed of it                 *)
  assumed,
  held,       (* the contract: the CRS and the SRID                        *)
  target,
  announced,  (* of the identifier, the SRID and the definition: their     *)
              (* state after the write, by the plan                        *)
  emitted,    (* what the new file says                                    *)
  reread,
  crs_stage   (* "start", "read", "planned", "written", "reread", "refused"*)

crsVars == <<original, assumed, held, target, announced, emitted, reread, crs_stage>>

-----------------------------------------------------------------------------
(* Identifiers and definitions *)

Wkt1Roots == {"GEOGCS", "PROJCS", "GEOCCS", "VERT_CS", "COMPD_CS", "LOCAL_CS", "FITTED_CS"}
Wkt2Roots == {"GEOGCRS", "GEODCRS", "PROJCRS", "VERTCRS", "COMPOUNDCRS", "ENGCRS", "BOUNDCRS", "DERIVEDPROJCRS",
              "TIMECRS", "PARAMETRICCRS"}

Roots(format) == IF format = "wkt" THEN Wkt1Roots ELSE Wkt2Roots

\* The authorities compare whatever their case, the codes exactly.
Uppercase(authority) == IF authority \in DOMAIN Capitals THEN Capitals[authority] ELSE authority

StessoIdentificatore(a, b) == Uppercase(a[1]) = Uppercase(b[1]) /\ a[2] = b[2]

LocalAuthorities == {"POSTGIS", "MYSQL", "MARIADB", "MSSQL", "ORACLE", "DB2", "SQLITE"}

AutoritaLocale(id) == id # Nil /\ Uppercase(id[1]) \in LocalAuthorities

SridCodes == IntegerCodes \ NegativeCodes

AuthoritySrid(id) ==
  IF id # Nil /\ Uppercase(id[1]) = "EPSG" /\ id[2] \in SridCodes THEN id[2] ELSE Nil

-----------------------------------------------------------------------------
(* The grammar of a text, and what it declares *)

DefinitionFormat(text) ==
  IF text.json THEN "projjson" ELSE IF text.root \in Wkt2Roots THEN "wkt2" ELSE "wkt"

Parses(text, format) ==
  IF format = "projjson" THEN text.json /\ text.root # "malformed"
  ELSE ~text.json /\ text.root \in Roots(format)

Children(text)    == {text.children[i] : i \in DOMAIN text.children}
ChildrenNamed(text, word) == {child \in Children(text) : child[1] = word}

\* An identifier without its code is not one.
Identified(children) ==
  IF \E child \in children : child[3] = "none" THEN Declined ELSE {<<child[2], child[3]>> : child \in children}

Identificatori(text, format) ==
  IF ~Parses(text, format) THEN Declined
  ELSE IF format = "wkt" THEN Identified(ChildrenNamed(text, "AUTHORITY"))
  ELSE IF format = "wkt2" THEN Identified(ChildrenNamed(text, "ID"))
  ELSE IF ChildrenNamed(text, "id") # {} /\ ChildrenNamed(text, "ids") # {} THEN Declined
  ELSE Identified(ChildrenNamed(text, "id") \cup ChildrenNamed(text, "ids"))

\* The codes that the authority of an identifier has among others.
CodesOf(authority, ids) == {id[2] : id \in {other \in ids : Uppercase(other[1]) = Uppercase(authority)}}

Contraddice(id, text, format) ==
  LET Of(ids) == IF ids = Declined THEN Declined
                 ELSE id # Nil /\ CodesOf(id[1], ids) # {} /\ id[2] \notin CodesOf(id[1], ids)
  IN  Of(Identificatori(text, format))

\* The EPSG code of a definition, when it declares one only.
DefinitionAuthoritySrid(text, format) ==
  LET Only(ids) == IF ids # Declined /\ \E code \in SridCodes : CodesOf("EPSG", ids) = {code}
                   THEN CHOOSE code \in SridCodes : CodesOf("EPSG", ids) = {code} ELSE Nil
  IN  Only(Identificatori(text, IF text.json THEN format ELSE IF text.root \in Wkt1Roots THEN "wkt" ELSE "wkt2"))

-----------------------------------------------------------------------------
(* The identifier of a WKT that may be assumed from outside *)

\* The WKT ESRI writes for WGS 84, which declares no identifier.
Wgs84Parts ==
  << <<"DATUM", "WGS_1984", "none">>, <<"PRIMEM", "Greenwich", "none">>, <<"UNIT", "degree", "none">> >>
Wgs84Esri(text) == text.root = "GEOGCS" /\ text.children = Wgs84Parts

\* The keyword of the other grammar counts as well, after its own.
WktIdentifiers(text) == Identified(ChildrenNamed(text, "AUTHORITY") \cup ChildrenNamed(text, "ID"))

FirstDeclared(text) ==
  LET own    == IF text.root \in Wkt1Roots THEN "AUTHORITY" ELSE "ID"
      word   == IF ChildrenNamed(text, own) # {} THEN own ELSE IF own = "ID" THEN "AUTHORITY" ELSE "ID"
      places == {i \in DOMAIN text.children : text.children[i][1] = word}
      first  == text.children[CHOOSE i \in places : \A j \in places : i <= j]
  IN  <<first[2], first[3]>>

IdentitaWkt(text) ==
  IF text.json \/ text.root \notin Wkt1Roots \cup Wkt2Roots \/ WktIdentifiers(text) = Declined THEN "malformed"
  ELSE IF text.root = "BOUNDCRS" THEN "bound"
  ELSE IF WktIdentifiers(text) = {} THEN IF Wgs84Esri(text) THEN "esri" ELSE "anonymous"
  ELSE IF \A id \in WktIdentifiers(text) : StessoIdentificatore(id, FirstDeclared(text)) THEN "declared"
  ELSE "ambiguous"

IdentificatoreWkt(text, assumption) ==
  LET declared == FirstDeclared(text)
      Agreeing ==
        IF assumption # Nil THEN IF StessoIdentificatore(assumption, declared) THEN declared ELSE Declined
        ELSE IF AuthoritySrid(declared) # Nil THEN <<"EPSG", declared[2]>> ELSE Nil
      Esri ==
        IF assumption = Nil THEN <<"EPSG", "4326">>
        ELSE IF \E wgs84 \in {<<"EPSG", "4326">>, <<"OGC", "CRS84">>} : StessoIdentificatore(assumption, wgs84)
        THEN assumption ELSE Declined
      Known(identity) ==
        CASE identity \in {"malformed", "ambiguous"} -> Declined
          [] identity = "bound"     -> IF assumption = Nil THEN Nil ELSE Declined
          [] identity = "anonymous" -> assumption
          [] identity = "declared"  -> Agreeing
          [] identity = "esri"      -> Esri
  IN  Known(IdentitaWkt(text))

-----------------------------------------------------------------------------
(* The kind *)

AuthorityKind(id) ==
  IF id # Nil /\ (StessoIdentificatore(id, <<"OGC", "CRS84">>) \/ StessoIdentificatore(id, <<"EPSG", "4326">>))
  THEN "geographic" ELSE "unknown"

KindOfId(id) ==
  IF id # Nil /\ StessoIdentificatore(id, <<"EPSG", "3857">>) THEN "projected" ELSE AuthorityKind(id)

\* A geodetic system is geographic when its coordinates are an ellipsoid's.
GenereRadice(text) ==
  CASE text.root \in {"GEOGCS", "GEOGCRS", "GeographicCRS"} -> "geographic"
    [] text.root \in {"GEODCRS", "GeodeticCRS"} /\ <<"CS", "ellipsoidal", "none">> \in Children(text) -> "geographic"
    [] text.root \in {"PROJCS", "PROJCRS", "ProjectedCRS"} -> "projected"
    [] OTHER -> "unknown"

RadiceLegata(text) == text.root \in {"BOUNDCRS", "BoundCRS"}

\* Declined when what the definition defines is not what the identifier names.
CrsKindFor(id, text) ==
  LET Agreed(fromId, root) ==
        IF text.json /\ text.root = "untyped" THEN fromId
        ELSE IF root # "unknown" THEN IF fromId \in {"unknown", root} THEN root ELSE Declined
        ELSE IF fromId = "unknown" \/ RadiceLegata(text) THEN "unknown" ELSE Declined
  IN IF text = Nil THEN KindOfId(id)
     ELSE IF Parses(text, DefinitionFormat(text)) THEN Agreed(KindOfId(id), GenereRadice(text)) ELSE "unknown"

-----------------------------------------------------------------------------
(* The axes *)

\* The first two axes, when they have no meridian of their own.
Direction(axis)  == IF axis[3] = "meridian" THEN "other" ELSE axis[2]
CoppiaEstNord(axes) ==
  IF Len(axes) >= 2 /\ {Direction(axes[1]), Direction(axes[2])} = {"east", "north"} THEN "eastNorth" ELSE "other"

ProiezionePolare(text) ==
  \E child \in Children(text) :
    \/ child[1] = "PROJECTION" /\ child[2] = "polar"
    \/ child[1] = "PARAMETER" /\ child[2] = "latitude_of_origin" /\ child[3] = "90"

AssiDichiarati(text, format) ==
  LET withAxes == {"GEOGCS", "PROJCS", "GEOGCRS", "GEODCRS", "PROJCRS",
                   "GeographicCRS", "GeodeticCRS", "ProjectedCRS"}
      axes     == SelectSeq(text.children, LAMBDA child : child[1] = "AXIS")
  IN IF ~Parses(text, format) \/ text.root \notin withAxes THEN "unknown"
     ELSE IF axes # << >>                                   THEN CoppiaEstNord(axes)
     ELSE IF format # "wkt"                                 THEN "unknown"
     ELSE IF ProiezionePolare(text)                         THEN "other" ELSE "eastNorth"

\* The axes of coordinates that are stored east first.
EastFirstAxisOrder(kind, text, format) ==
  LET Stored(axes) ==
        IF kind = "unknown" \/ axes = "unknown" \/ (kind = "projected" /\ axes = "none") THEN "unknown"
        ELSE IF axes = "other" THEN "other"
        ELSE IF kind = "geographic" THEN "lonLat" ELSE "eastNorth"
  IN  Stored(IF text = Nil THEN "none" ELSE AssiDichiarati(text, format))

-----------------------------------------------------------------------------
(* A contract's CRS, and what every reader's is checked for *)

System(status, id, kind, text) ==
  [status |-> status, id |-> id, kind |-> kind, axis |-> "unknown", text |-> text,
   format |-> IF text = Nil THEN Nil ELSE DefinitionFormat(text)]

Missing                  == System("missing", Nil, "unknown", Nil)
Resolved(id, kind, text) == System("resolved", id, kind, text)
Unresolved(text, hint)   == System("unresolved", hint, "unknown", text)

StoredEastFirst(crs) == [crs EXCEPT !.axis = EastFirstAxisOrder(crs.kind, crs.text, crs.format)]

Wgs84 == StoredEastFirst(Resolved(<<"OGC", "CRS84">>, "geographic", Nil))

VerificaCrsEmesso(crs) ==
  /\ crs.status = "resolved" => ~AutoritaLocale(crs.id)
  /\ crs.text # Nil => Contraddice(crs.id, crs.text, crs.format) = FALSE

VerificaCrsAssunto(assumption, crs) ==
  assumption # Nil => crs.id # Nil /\ StessoIdentificatore(assumption, crs.id)

-----------------------------------------------------------------------------
(* What the writers know by heart *)

SaysNothing == [said |-> "no", text |-> Nil, id |-> Nil, srid |-> Nil, meta |-> Nil, key |-> Nil]

\* The two definitions the writers know by heart, and what they stand for.
Wgs84Ids == {<<"EPSG", "4326">>, <<"OGC", "CRS84">>}
Wgs84Wkt     == [json |-> FALSE, root |-> "GEOGCS", children |-> Wgs84Parts]
Wgs84EsriWkt == [json |-> FALSE, root |-> "GEOGCS", children |-> Append(Wgs84Parts, <<"AUTHORITY", "EPSG", "4326">>)]

Contract(crs, srid) == [crs |-> crs, srid |-> srid]

-----------------------------------------------------------------------------
(* The metadata of an Arrow field *)

\* Two declarations of one column.
Agree(a, b, unknown) == a = unknown \/ b = unknown \/ a = b
Pick(a, b, unknown)  == IF a = unknown THEN b ELSE a

Merged(first, second) ==
  [first EXCEPT !.id = Pick(@, second.id, Nil), !.kind = Pick(@, second.kind, "unknown"),
                !.axis = Pick(@, second.axis, "unknown"), !.text = Pick(@, second.text, Nil),
                !.format = IF first.text = Nil THEN second.format ELSE @]

Coherent(crs) == crs.id # Nil /\ crs.text # Nil => Contraddice(crs.id, crs.text, crs.format) = FALSE

ReconcileCrs(first, second) ==
  IF first.status = "resolved" /\ second.status = "resolved"
  THEN IF /\ Agree(first.id, second.id, Nil) /\ Agree(first.text, second.text, Nil)
          /\ Agree(first.axis, second.axis, "unknown") /\ Agree(first.kind, second.kind, "unknown")
          /\ Coherent(Merged(first, second))
       THEN Merged(first, second) ELSE Declined
  ELSE IF first = second THEN first ELSE Declined

Authority(id) == IF AutoritaLocale(id) THEN Unresolved(Nil, id) ELSE Resolved(id, AuthorityKind(id), Nil)

GenereDaiMetadati(id, text, axis) ==
  LET Of(kind) ==
        IF kind # "unknown" THEN IF kind = Declined THEN "unknown" ELSE kind
        ELSE IF text = Nil /\ axis \in {"lonLat", "latLon"} THEN "geographic"
        ELSE IF text = Nil /\ axis = "eastNorth" THEN "projected" ELSE "unknown"
  IN  Of(CrsKindFor(id, text))

Declares(crs) == crs.id # Nil \/ crs.text # Nil

ReadDeclared(meta) ==
  IF \/ meta.crs.text # Nil /\ Contraddice(meta.crs.id, meta.crs.text, meta.crs.format) # FALSE
     \/ meta.crs.status = "resolved" /\ (~Declares(meta.crs) \/ AutoritaLocale(meta.crs.id))
     \/ meta.crs.status = "unresolved" /\ ~Declares(meta.crs)
     \/ meta.crs.status = "missing" /\ (Declares(meta.crs) \/ meta.srid # Nil)
  THEN Declined
  ELSE IF meta.crs.status = "resolved"
  THEN [meta.crs EXCEPT !.kind = GenereDaiMetadati(meta.crs.id, meta.crs.text, meta.crs.axis)]
  ELSE meta.crs

ReadMetadata(meta, key) ==
  IF meta = Nil THEN Contract(IF key = Nil THEN Missing ELSE Authority(key), Nil)
  ELSE LET WithKey(crs) == IF crs = Declined \/ key = Nil THEN crs ELSE ReconcileCrs(crs, Authority(key))
           Of(crs)      == IF crs = Declined THEN Declined ELSE Contract(crs, meta.srid)
       IN  Of(WithKey(ReadDeclared(meta)))

-----------------------------------------------------------------------------
(* How each driver reads the CRS of a file *)

\* The kind is of the identifier and the definition together.
OfIdentifier(id, text) ==
  LET Of(kind) == IF kind = Declined THEN Declined ELSE Contract(StoredEastFirst(Resolved(id, kind, text)), Nil)
  IN  Of(CrsKindFor(id, text))

Assumed(id) == IF id = Nil THEN Declined ELSE OfIdentifier(id, Nil)

OfWkt(text, id) ==
  LET Of(found) == IF found \in {Nil, Declined} THEN Declined ELSE OfIdentifier(found, text)
  IN  Of(IdentificatoreWkt(text, id))

\* The .prj: a WKT, or the name of CRS84.
CrsOfShp(file, id) ==
  IF file.text = Nil THEN Assumed(id)
  ELSE IF file.text.root # "OGC:CRS84" THEN OfWkt(file.text, id)
  ELSE IF id # Nil /\ ~StessoIdentificatore(id, <<"OGC", "CRS84">>) THEN Declined ELSE Contract(Wgs84, Nil)

\* The GEODATA of a drawing: a WKT, a name, or XML with the codes of its aliases.
TextualCodes(text) == {child[3] : child \in ChildrenNamed(text, "EPSG")}

CrsOfDxf(file, id) ==
  LET Named84 == file.text.root = "OGC:CRS84"
      Allowed(found) == IF id = Nil THEN found[1] = "OGC" \/ found[2] \in IntegerCodes
                                     ELSE StessoIdentificatore(id, found)
      Only(found) == IF Allowed(found) THEN OfIdentifier(found, Nil) ELSE Declined
      Of(codes) == CASE codes = {} /\ Named84     -> Only(<<"OGC", "CRS84">>)
                     [] Cardinality(codes) = 1    -> Only(<<"EPSG", CHOOSE code \in codes : TRUE>>)
                     [] OTHER                     -> Declined
  IN IF file.text = Nil THEN Assumed(id)
     ELSE IF ~file.text.json /\ file.text.root \notin {"OGC:CRS84", "textual"} THEN OfWkt(file.text, id)
     ELSE Of(TextualCodes(file.text))

\* The row of gpkg_spatial_ref_sys that srs_id names.
CrsOfGpkg(file) ==
  LET org      == <<Uppercase(file.id[1]), file.id[2]>>
      Of(read) == IF file.id = Nil \/ org[1] = "NONE" \/ read = Declined THEN Declined
                  ELSE [read EXCEPT !.srid = file.srid]
  IN  Of(OfIdentifier(org, file.text))

\* The "id" of a document, whatever its "ids".
DocumentId(text) ==
  LET ids == ChildrenNamed(text, "id")
      id  == CHOOSE child \in ids : TRUE
  IN  IF ids = {} THEN Nil ELSE <<id[2], id[3]>>

ReadColumn(file) ==
  CASE file.said = "absent"   -> Contract(Wgs84, Nil)
    [] file.said = "null"     -> Contract(Missing, Nil)
    [] file.said = "legacy"   -> Contract(StoredEastFirst(Resolved(file.id, AuthorityKind(file.id), Nil)), Nil)
    [] file.said = "document" ->
         IF DocumentId(file.text) = Nil THEN Declined ELSE OfIdentifier(DocumentId(file.text), file.text)

\* Without metadata of the format, the field's own or what is assumed.
ReadField(file, id) ==
  LET Of(declared) == IF declared # Declined /\ declared.crs = Missing /\ id # Nil
                      THEN Contract(Resolved(id, AuthorityKind(id), Nil), Nil) ELSE declared
  IN  Of(ReadMetadata(file.meta, file.key))

\* The field is tagged with what was read, and its metadata must agree.
Tagged(read, file) ==
  LET named == IF read.crs.status = "resolved" THEN read.crs.id ELSE Nil
      key   == Pick(named, file.key, Nil)
  IN  IF ReadMetadata(file.meta, key) = Declined THEN Declined
      ELSE [read EXCEPT !.srid = IF named # Nil /\ named[1] = "EPSG" THEN AuthoritySrid(named) ELSE Nil]

CrsOfGeoParquet(file, id) ==
  LET Of(read) == IF read = Declined THEN Declined ELSE Tagged(read, file)
  IN  Of(IF file.said = "none" THEN ReadField(file, id) ELSE ReadColumn(file))

ReadDriver(format, file, id) ==
  CASE format = "csv"        -> Assumed(id)
    [] format = "geojson"    -> Contract(Wgs84, Nil)
    [] format = "shp"        -> CrsOfShp(file, id)
    [] format = "dxf"        -> CrsOfDxf(file, id)
    [] format = "gpkg"       -> CrsOfGpkg(file)
    [] format = "geoparquet" -> CrsOfGeoParquet(file, id)
    [] format = "ipc"        -> ReadMetadata(file.meta, file.key)

\* The checks every layer goes through, whatever its driver.
OpenLayer(format, file, id) ==
  LET Checked(read) == IF read # Declined /\ VerificaCrsAssunto(id, read.crs) /\ VerificaCrsEmesso(read.crs)
                       THEN read ELSE Declined
  IN  Checked(ReadDriver(format, file, id))

-----------------------------------------------------------------------------
(* What each format keeps *)

Everything ==
  [support |-> "optional", id |-> "preserved", srid |-> "preserved", text |-> "preserved",
   grammars |-> {"wkt", "wkt2", "projjson"}, textElse |-> "preserved",
   anyBare |-> TRUE, bareIds |-> {}, upper |-> FALSE, synthesized |-> Nil]

OfDefinition(text) ==
  [Everything EXCEPT !.support = "required", !.id = "definition", !.srid = "absent", !.grammars = {"wkt", "wkt2"},
                     !.textElse = "identifier", !.synthesized = text]

CrsCapabilities ==
  [csv        |-> [Everything EXCEPT !.support = "none", !.id = "absent", !.srid = "absent", !.text = "absent"],
   geojson    |-> [Everything EXCEPT !.support = "fixed", !.id = "fixed", !.srid = "absent", !.text = "absent"],
   shp        |-> OfDefinition(Wgs84Wkt),
   dxf        |-> OfDefinition(Wgs84EsriWkt),
   gpkg       |-> [Everything EXCEPT !.support = "required", !.srid = "identifier", !.text = "identifier",
                                     !.grammars = {"wkt"}, !.textElse = "synthesized", !.upper = TRUE],
   geoparquet |-> [Everything EXCEPT !.support = "orUnknown", !.srid = "identifier", !.grammars = {"projjson"},
                                     !.textElse = "absent", !.anyBare = FALSE, !.bareIds = {<<"OGC", "CRS84">>}],
   ipc        |-> Everything]

TextState(caps, crs) ==
  IF crs.format \in caps.grammars THEN caps.text
  ELSE IF caps.text = "absent" THEN "absent" ELSE caps.textElse

\* Without the definition that carries it, an identifier may have no place.
IdState(caps, crs) ==
  LET kept  == crs.text # Nil /\ TextState(caps, crs) = "preserved"
      state == IF ~kept /\ ~caps.anyBare /\ crs.id \notin caps.bareIds THEN "absent" ELSE caps.id
  IN IF caps.upper /\ crs.id # Nil /\ state = "preserved"
     THEN IF Uppercase(crs.id[1]) # crs.id[1] THEN "identifier" ELSE state
     ELSE state

\* Of a format that carries the CRS in the definition only: << the identifier its readers will find >>.
IdentificatoreRiletto(caps, crs) ==
  IF caps.id # "definition" THEN << >>
  ELSE IF crs.text # Nil /\ TextState(caps, crs) = "preserved" THEN <<IdentificatoreWkt(crs.text, Nil)>>
  ELSE IF crs.id \in Wgs84Ids THEN <<IdentificatoreWkt(caps.synthesized, Nil)>> ELSE << >>

ConservaLaCoppia(caps) ==
  caps.id = "preserved" /\ caps.text = "preserved" /\ caps.grammars = Everything.grammars /\ caps.anyBare

\* One column cannot name several codes, unless each has its own place.
SridValues(contract) ==
  {AuthoritySrid(contract.crs.id), contract.srid,
   IF contract.crs.text = Nil THEN Nil ELSE DefinitionAuthoritySrid(contract.crs.text, contract.crs.format)} \ {Nil}

AllPreserved(caps, contract) ==
  /\ AuthoritySrid(contract.crs.id) # Nil => IdState(caps, contract.crs) = "preserved"
  /\ contract.srid # Nil => caps.srid = "preserved"
  /\ (contract.crs.text # Nil /\ DefinitionAuthoritySrid(contract.crs.text, contract.crs.format) # Nil)
       => TextState(caps, contract.crs) = "preserved"

VerificaIdentificatoreConservato(caps, crs) ==
  \/ crs.id = Nil \/ crs.text = Nil \/ caps.id = "absent" \/ ConservaLaCoppia(caps)
  \/ CrsKindFor(crs.id, crs.text) # Declined

VerificaRiletturaRisolta(caps, crs) ==
  LET Settled(found) == found # << >> => found[1] # Declined /\ (found[1] = Nil => crs.id # Nil)
  IN  crs.status = "resolved" => Settled(IdentificatoreRiletto(caps, crs))

ValidateWrite(format, contract) ==
  LET caps == CrsCapabilities[format]
      crs  == contract.crs
  IN /\ crs.axis = "latLon" => format = "ipc"
     /\ caps.support = "required" => crs.status = "resolved"
     /\ caps.support = "orUnknown" => crs.status # "unresolved"
     /\ caps.support = "fixed" => crs.status = "resolved" /\ crs.id = <<"OGC", "CRS84">>
     /\ VerificaIdentificatoreConservato(caps, crs)
     /\ VerificaRiletturaRisolta(caps, crs)
     /\ Cardinality(SridValues(contract)) > 1 => AllPreserved(caps, contract)

\* What is derived needs what it is derived from.
StatoPerIlPiano(state, crs) ==
  CASE state = "definition"  -> IF crs.text # Nil \/ crs.id \in Wgs84Ids THEN state ELSE "absent"
    [] state = "identifier"  -> IF crs.id # Nil THEN state ELSE "absent"
    [] state = "synthesized" -> IF crs.id = <<"EPSG", "4326">> THEN state ELSE "absent"
    [] OTHER -> state

\* Mutant: that the readers find an identifier is enough, whichever it is.
StatoDellIdentificatoreTrusting(caps, crs) ==
  LET Of(found) ==
        IF found = << >> THEN StatoPerIlPiano(IdState(caps, crs), crs)
        ELSE IF crs.id # Nil /\ found[1] \notin {Nil, Declined} THEN IdState(caps, crs) ELSE "absent"
  IN  Of(IdentificatoreRiletto(caps, crs))

StatoDellIdentificatore(caps, crs) ==
  LET Of(found) ==
        IF found = << >> THEN StatoPerIlPiano(IdState(caps, crs), crs)
        ELSE IF crs.id # Nil /\ found[1] \notin {Nil, Declined} /\ StessoIdentificatore(found[1], crs.id)
        THEN IdState(caps, crs) ELSE "absent"
  IN  Of(IdentificatoreRiletto(caps, crs))

PlannedLoss(format, contract) ==
  LET caps == CrsCapabilities[format]
      crs  == contract.crs
  IN [id   |-> StatoDellIdentificatore(caps, crs),
      srid |-> StatoPerIlPiano(caps.srid, crs),
      text |-> StatoPerIlPiano(TextState(caps, crs), crs)]

-----------------------------------------------------------------------------
(* What each driver writes *)

WktForId(id, text) == IF id \in Wgs84Ids THEN text ELSE Nil

ResolvePrj(crs) ==
  IF crs.text # Nil /\ crs.format \in {"wkt", "wkt2"} THEN [SaysNothing EXCEPT !.text = crs.text]
  ELSE IF crs.text # Nil /\ crs.id \notin Wgs84Ids THEN Declined
  ELSE [SaysNothing EXCEPT !.text = WktForId(crs.id, Wgs84Wkt)]

DefinitionForWrite(crs) ==
  IF crs.text # Nil /\ crs.format \in {"wkt", "wkt2"} THEN [SaysNothing EXCEPT !.text = crs.text]
  ELSE IF crs.id \in Wgs84Ids THEN [SaysNothing EXCEPT !.text = Wgs84EsriWkt] ELSE Declined

\* The rows a new GeoPackage has, and the one of this layer.
RegisterSrs(contract) ==
  LET id    == contract.crs.id
      srsId == IF contract.srid # Nil THEN contract.srid ELSE id[2]
      row   == [SaysNothing EXCEPT !.id = <<Uppercase(id[1]), id[2]>>, !.srid = srsId]
      Of(owner, text) == IF StessoIdentificatore(id, owner) THEN [row EXCEPT !.text = text] ELSE Declined
  IN IF id = Nil \/ AutoritaLocale(id) \/ id[2] \notin IntegerCodes THEN Declined
     ELSE IF srsId \in {"0", "-1"} THEN Of(<<"NONE", srsId>>, Nil)
     ELSE IF srsId = "4326"        THEN Of(<<"EPSG", "4326">>, Wgs84EsriWkt)
     ELSE Of(id, IF contract.crs.format = "wkt" THEN contract.crs.text ELSE Nil)

DocumentoDaScrivere(crs) ==
  LET id == DocumentId(crs.text)
  IN IF id = Nil \/ (crs.id # Nil /\ crs.id # id) \/ CrsKindFor(id, crs.text) = Declined THEN Declined ELSE "document"

CrsDaScrivere(crs) ==
  IF crs.status = "unresolved" THEN Declined
  ELSE IF crs.text # Nil /\ crs.text.json
  THEN IF crs.text.root = "malformed" THEN Declined ELSE DocumentoDaScrivere(crs)
  ELSE IF crs.text # Nil /\ (crs.id \notin Wgs84Ids \/ CrsKindFor(crs.id, crs.text) = Declined) THEN Declined
  ELSE IF crs.status = "missing" \/ crs.id = Nil THEN "null"
  ELSE IF crs.id \in Wgs84Ids THEN "absent" ELSE Declined

\* Of a column without metadata of its own the field says no more than its CRS84.
Crs84Only(crs) ==
  LET id == IF crs.id = Nil THEN Nil ELSE <<"OGC", "CRS84">>
  IN  [crs EXCEPT !.id = id, !.text = Nil, !.format = Nil]

CampoScritto(contract, said) == IF said # "absent" THEN contract ELSE [contract EXCEPT !.crs = Crs84Only(@)]

WriteGeoParquet(contract) ==
  LET said == CrsDaScrivere(contract.crs)
  IN IF said = Declined THEN Declined
     ELSE [SaysNothing EXCEPT !.said = said, !.text = IF said = "document" THEN contract.crs.text ELSE Nil,
                        !.meta = CampoScritto(contract, said),
                        !.key  = IF said = "absent" THEN <<"OGC", "CRS84">> ELSE Nil]

WriteDriver(format, contract) ==
  CASE format \in {"csv", "geojson"} -> SaysNothing
    [] format = "shp"        -> ResolvePrj(contract.crs)
    [] format = "dxf"        -> DefinitionForWrite(contract.crs)
    [] format = "gpkg"       -> RegisterSrs(contract)
    [] format = "geoparquet" -> WriteGeoParquet(contract)
    [] format = "ipc"        -> [SaysNothing EXCEPT !.meta = contract]

-----------------------------------------------------------------------------
(* What the parts of a CRS may be, and the files of each format *)

Ids         == Strings \X Strings
Definitions == [json : BOOLEAN, root : Strings, children : Seq(Strings \X Strings \X Strings)]
Systems ==
  {crs \in [status : {"missing", "resolved", "unresolved"}, id : Ids \cup {Nil},
            kind : {"geographic", "projected", "unknown"},
            axis : {"lonLat", "latLon", "eastNorth", "other", "unknown"},
            text : Definitions \cup {Nil}, format : {"wkt", "wkt2", "projjson", Nil}] :
     crs.text = Nil <=> crs.format = Nil}
Columns     == [crs : Systems, srid : Strings \cup {Nil}]
Layers      == [said : Strings, text : Definitions \cup {Nil}, id : Ids \cup {Nil},
                srid : Strings \cup {Nil}, meta : Columns \cup {Nil}, key : Ids \cup {Nil}]

WordsOfWgs84 == {"GEOGCS", "DATUM", "WGS_1984", "PRIMEM", "Greenwich", "UNIT", "degree",
                 "AUTHORITY", "EPSG", "4326", "none"}

\* A column that names its CRS has what it names it with.
ColumnOfFormat(file) ==
  /\ file.said \in {"absent", "null", "legacy", "document", "none"}
  /\ file.said = "legacy" => file.id # Nil
  /\ file.said = "document" => file.text # Nil

ASSUME CrsAssumption ==
  /\ Nil # Declined
  /\ \A nothing \in {Nil, Declined} :
       nothing \notin Strings \cup BOOLEAN \cup Ids \cup Definitions \cup Systems \cup Columns \cup Layers
                        \cup {"wkt", "wkt2", "projjson"} \cup {"geographic", "projected", "unknown"}
                        \cup {{}, {<<"EPSG", "4326">>}}
  /\ WordsOfWgs84 \cup {"OGC", "CRS84"} \subseteq Strings
  /\ Targets \subseteq DOMAIN CrsCapabilities /\ DOMAIN Originals \subseteq DOMAIN CrsCapabilities
  /\ \A format \in DOMAIN Originals : Originals[format] \subseteq Layers
  /\ "geoparquet" \in DOMAIN Originals => \A file \in Originals["geoparquet"] : ColumnOfFormat(file)
  /\ Assumable \subseteq Ids \cup {Nil}
  /\ \A authority \in DOMAIN Capitals : Capitals[authority] \in Strings \ DOMAIN Capitals
  /\ DOMAIN Capitals \cap ({"EPSG", "OGC", "NONE"} \cup LocalAuthorities) = {}

-----------------------------------------------------------------------------
CrsInit ==
  /\ \E format \in DOMAIN Originals : \E file \in Originals[format] : original = [format |-> format, file |-> file]
  /\ assumed \in Assumable
  /\ held = Nil /\ target = Nil /\ announced = Nil /\ emitted = Nil /\ reread = Nil
  /\ crs_stage = "start"

ReadOriginal ==
  /\ crs_stage = "start"
  /\ held' = OpenLayer(original.format, original.file, assumed)
  /\ crs_stage' = IF held' = Declined THEN "refused" ELSE "read"
  /\ UNCHANGED <<original, assumed, target, announced, emitted, reread>>

PlanWrite ==
  /\ crs_stage = "read"
  /\ target' \in Targets
  /\ announced' = IF ValidateWrite(target', held) THEN PlannedLoss(target', held) ELSE Declined
  /\ crs_stage' = IF announced' = Declined THEN "refused" ELSE "planned"
  /\ UNCHANGED <<original, assumed, held, emitted, reread>>

WriteCopy ==
  /\ crs_stage = "planned"
  /\ emitted' = WriteDriver(target, held)
  /\ crs_stage' = IF emitted' = Declined THEN "refused" ELSE "written"
  /\ UNCHANGED <<original, assumed, held, target, announced, reread>>

ReadCopy ==
  /\ crs_stage = "written"
  /\ reread' = OpenLayer(target, emitted, Nil)
  /\ crs_stage' = "reread"
  /\ UNCHANGED <<original, assumed, held, target, announced, emitted>>

CrsEnded == crs_stage \in {"refused", "reread"} /\ UNCHANGED crsVars

CrsNext == ReadOriginal \/ PlanWrite \/ WriteCopy \/ ReadCopy \/ CrsEnded

CrsSpec == CrsInit /\ [][CrsNext]_crsVars

-----------------------------------------------------------------------------
(* The identifier a conversion does not announce as lost is the one its    *)
(* copy is read back with, exactly or up to the case of the authority; so  *)
(* are a definition and an SRID announced as preserved.  A CRS that was    *)
(* not announced as lost is not refused by the reader either.              *)
CopyIsNotMisread ==
  crs_stage = "reread" =>
    /\ held.crs.id # Nil /\ announced.id # "absent" =>
         /\ reread # Declined
         /\ reread.crs.id # Nil
         /\ IF announced.id = "preserved" THEN reread.crs.id = held.crs.id
            ELSE StessoIdentificatore(reread.crs.id, held.crs.id)
    /\ held.crs.id # Nil /\ held.crs.text # Nil /\ announced.text = "preserved" /\ announced.id # "absent" =>
         reread.crs.text = held.crs.text /\ reread.crs.format = held.crs.format
    /\ held.srid # Nil /\ announced.srid = "preserved" => reread.srid = held.srid

\* --assume-crs names what a file leaves out and changes nothing it declares
\* but the case of the authority.  Only the WKT of ESRI, without an identifier,
\* may be named in two ways.
AssumptionOnlyFillsIn ==
  crs_stage \notin {"start", "refused"} =>
    LET Kept(plain) ==
          \/ plain = Declined
          \/ plain.crs = Missing
          \/ plain.crs.text # Nil /\ Wgs84Esri(plain.crs.text)
          \/ /\ StessoIdentificatore(plain.crs.id, held.crs.id)
             /\ held = [plain EXCEPT !.crs.id = held.crs.id]
    IN  assumed # Nil => Kept(OpenLayer(original.format, original.file, Nil))

\* register_srs takes a CRS of NONE, the organization of the two rows that a
\* GeoPackage keeps for what has no CRS, and the plan announces it as kept;
\* crs_for refuses every row of NONE, so that such a copy is not read back.
OrganizationIsNamed ==
  crs_stage = "reread" /\ target = "gpkg" => Uppercase(held.crs.id[1]) # "NONE"

\* The CRS of a layer is never misread: neither the source's, whatever is
\* assumed of it, nor the copy's, beyond the losses its plan announced (but a
\* GeoPackage's of NONE).
CrsIsNotMisread == (OrganizationIsNamed => CopyIsNotMisread) /\ AssumptionOnlyFillsIn

=============================================================================
