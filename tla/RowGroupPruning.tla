-------------------------- MODULE RowGroupPruning ---------------------------
(***************************************************************************)
(* Which row groups of a GeoParquet file a reader with a predicate and a   *)
(* spatial hint reads: gruppi_da_leggere of driver-geoparquet, from the    *)
(* statistics a writer put in the footer.                                  *)
(*                                                                         *)
(* A row has the value of one numeric column and, on one axis, the edges   *)
(* of its bounding box; a box whose first edge is past the second one goes *)
(* round the antimeridian.  Statistics are in the order of the column's    *)
(* logical type, and stored in its physical type, which is signed.         *)
(***************************************************************************)
EXTENDS Integers, Sequences, FiniteSets, FiniteSetsExt

CONSTANTS
  Kinds,    (* the numeric columns tried: "signed", "uint", "float"        *)
  Half,     (* of the integers: 2 ^ 31 or 2 ^ 63                            *)
  NaN,      (* of a float column                                           *)
  Null,
  Boxes,    (* the boxes tried                                             *)
  Hints,    (* the boxes asked for                                         *)
  None,     (* no statistics, no predicate, no hint                        *)
  GroupRows (* bound: of the row group                                     *)

ASSUME RowGroupPruningAssumption ==
  /\ Kinds \subseteq {"signed", "uint", "float"}
  /\ Half \in Nat /\ GroupRows \in Nat
  /\ Boxes \cup Hints \subseteq Int \X Int

VARIABLES
  kind,      (* of the numeric column                                      *)
  rows,      (* of a row group                                             *)
  footer,    (* its statistics: [value, low, high]                         *)
  predicate, (* ReadRequest::pruning_predicate                             *)
  hint,      (* ReadRequest::spatial_pruning_hint                          *)
  kept       (* "unknown" until the reader is made, then whether it reads the group *)

pruningVars == <<kind, rows, footer, predicate, hint, kept>>

Numbers(k) == CASE k = "signed" -> - Half .. Half - 1
               [] k = "uint"   -> 0 .. 2 * Half - 1
               [] k = "float"  -> {-1, 0, 1}

Cells(k) == Numbers(k) \cup {Null} \cup (IF k = "float" THEN {NaN} ELSE {})

Comparisons == {">", ">=", "<", "<=", "="}

-----------------------------------------------------------------------------
(* The footer *)

\* The bits of an unsigned value, read as the signed physical type.
Physical(k, value) == IF k = "uint" /\ value >= Half THEN value - 2 * Half ELSE value

\* Nulls and NaN leave no trace; statistics may be missing.
Extent(k, values) ==
  IF values = {} THEN None ELSE [min |-> Physical(k, Min(values)), max |-> Physical(k, Max(values))]

Column(group) == {group[i].value : i \in 1 .. Len(group)} \ {Null, NaN}
Edge(group, edge) == {group[i].box[edge] : i \in 1 .. Len(group)}

Footers(k, group) ==
  {[value |-> Extent(k, Column(group)),
    low |-> Extent("float", Edge(group, 1)), high |-> Extent("float", Edge(group, 2))],
   [value |-> None, low |-> None, high |-> None]}

-----------------------------------------------------------------------------
(* gruppi_da_leggere *)

\* stat_range: statistics out of order say nothing.
StatRange(stats) ==
  IF stats = None \/ (stats # None /\ stats.min > stats.max) THEN None ELSE stats

\* Mutant: a comparison that admits the bound is taken for one that does not.
ComparisonStrict(range, comparison, value) ==
  CASE comparison \in {">", ">="} -> range.max > value
    [] comparison \in {"<", "<="} -> range.min < value
    [] comparison = "="           -> range.min <= value /\ value <= range.max

\* comparison_matches
ComparisonMatches(range, comparison, value) ==
  CASE comparison = ">"  -> range.max > value
    [] comparison = ">=" -> range.max >= value
    [] comparison = "<"  -> range.min < value
    [] comparison = "<=" -> range.min <= value
    [] comparison = "="  -> range.min <= value /\ value <= range.max

\* range_matches: a literal of the other type than the statistics keeps all.
RangeMatches(range) ==
  predicate.float # (kind = "float")
    \/ ComparisonMatches(range, predicate.comparison, predicate.value)

\* gruppi_dopo_pruning: a column that is unknown or ambiguous keeps all.
KeptByValue ==
  \/ predicate = None
  \/ ~ predicate.resolved
  \/ StatRange(footer.value) = None
  \/ RangeMatches(StatRange(footer.value))

\* interpretabile_per_il_pruning: an inverted extent is not used.
Interpretable(low, high) == low.min <= high.max

\* gruppi_dopo_pruning_spaziale
KeptByBox ==
  LET low == StatRange(footer.low)  high == StatRange(footer.high) IN
  \/ hint = None
  \/ low = None \/ high = None
  \/ ~ Interpretable(low, high)
  \/ ~ (high.max < hint[1] \/ low.min > hint[2])

\* The reader reads the groups that both keep.
GruppiDaLeggere ==
  /\ kept = "unknown"
  /\ kept' = IF KeptByValue /\ KeptByBox THEN "read" ELSE "skipped"
  /\ UNCHANGED <<kind, rows, footer, predicate, hint>>

-----------------------------------------------------------------------------
Predicates(k) ==
  {None} \cup [comparison : Comparisons, value : Numbers(k), float : BOOLEAN, resolved : BOOLEAN]

PruningInit ==
  /\ kind \in Kinds
  /\ rows \in UNION {[1 .. n -> [value : Cells(kind), box : Boxes]] : n \in 1 .. GroupRows}
  /\ footer \in Footers(kind, rows)
  /\ predicate \in Predicates(kind)
  /\ hint \in Hints \cup {None}
  /\ kept = "unknown"

PruningDone == kept # "unknown" /\ UNCHANGED pruningVars

PruningNext == GruppiDaLeggere \/ PruningDone

PruningSpec == PruningInit /\ [][PruningNext]_pruningVars

-----------------------------------------------------------------------------
(* Properties *)

Satisfies(value) ==
  \/ predicate = None
  \/ value \notin {Null, NaN} /\
       CASE predicate.comparison = ">"  -> value > predicate.value
         [] predicate.comparison = ">=" -> value >= predicate.value
         [] predicate.comparison = "<"  -> value < predicate.value
         [] predicate.comparison = "<=" -> value <= predicate.value
         [] predicate.comparison = "="  -> value = predicate.value

\* A box that goes round meets a hint at either of its two ends.
Meets(box) ==
  \/ hint = None
  \/ IF box[1] <= box[2] THEN ~ (box[2] < hint[1] \/ box[1] > hint[2])
     ELSE hint[2] >= box[1] \/ hint[1] <= box[2]

\* "mai under-return": a group that holds a row the caller asked for is read,
\* whatever its statistics are.
PruningKeepsMatches ==
  kept = "skipped" =>
    \A i \in 1 .. Len(rows) : ~ (Satisfies(rows[i].value) /\ Meets(rows[i].box))

=============================================================================
