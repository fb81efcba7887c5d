----------------------------- MODULE GpkgPaging -----------------------------
(***************************************************************************)
(* The reader of a GeoPackage layer: driver-gpkg.                          *)
(*                                                                         *)
(* next_batch is one query on the reader's own connection, for the rows    *)
(* past the last rowid it has seen; between two of them other connections  *)
(* insert, delete and move features.  A query sees one state of the        *)
(* database.  A rowid is any i64, and the b-tree or the r-tree of an       *)
(* inconsistent file may answer with any rows.                             *)
(***************************************************************************)
EXTENDS Integers, Sequences, FiniteSets

CONSTANTS
  RowIds,      (* a set of integers, zero and below included               *)
  NoRowId,     (* last_rowid before the first page                         *)
  PageSizes,   (* AdaptiveBatchSizer::rows, page by page; one at least     *)
  MaxChanges   (* bound: what other connections do while it reads          *)

ASSUME GpkgPagingAssumption ==
  /\ RowIds \subseteq Int /\ IsFiniteSet(RowIds) /\ NoRowId \notin Int
  /\ PageSizes \subseteq Nat \ {0}

VARIABLES
  table,       (* the features: rowid -> [srs, near]                       *)
  joined,      (* the r-tree is joined: only the rows near the hint        *)
  consistent,  (* the indexes of the file agree with its rows              *)
  last_rowid,
  page_answer, (* of the last next_batch                                   *)
  page_stopped,
  delivered,   (* the rowids of the rows handed out                        *)
  pages,       (* how many batches                                         *)
  steady,      (* the rows asked for that nobody touched since open        *)
  changes

pagingVars == <<table, joined, consistent, last_rowid, page_answer, page_stopped, delivered,
                pages, steady, changes>>

Features == [srs : {"layer", "other"}, near : BOOLEAN]

Selected == {id \in DOMAIN table : joined => table[id].near}

Greatest(ids) == CHOOSE id \in ids : \A other \in ids : other <= id

-----------------------------------------------------------------------------
(* open_layer_reader *)

\* A join is made when the layer has a registered r-tree and the request a
\* hint that is a box.
PagingInit ==
  /\ table \in UNION {[ids -> Features] : ids \in SUBSET RowIds}
  /\ joined \in BOOLEAN
  /\ consistent \in BOOLEAN
  /\ last_rowid = NoRowId
  /\ page_answer = "none" /\ page_stopped = FALSE
  /\ delivered = << >> /\ pages = 0
  /\ steady = Selected
  /\ changes = 0

-----------------------------------------------------------------------------
(* next_batch *)

\* Mutant: a cursor that begins at zero.
PastPositive(id) == IF last_rowid = NoRowId THEN id > 0 ELSE id > last_rowid

\* ?1 IS NULL OR t.rowid > ?1
Past(id) == IF last_rowid = NoRowId THEN TRUE ELSE id > last_rowid

\* The place of a rowid in a set.
Rank(ids, id) == Cardinality({other \in ids : other <= id})

\* The first rows of a set, as many as the limit.
First(ids, limit) == {id \in ids : Rank(ids, id) <= limit}

InOrder(ids) == [i \in 1 .. Cardinality(ids) |-> CHOOSE id \in ids : Rank(ids, id) = i]

Page(ids, limit) == InOrder(First(ids, limit))

\* What the query answers with.
Answers(limit) ==
  IF consistent THEN {Page({id \in Selected : Past(id)}, limit)}
  ELSE UNION {[1 .. n -> DOMAIN table] : n \in 0 .. limit}

IdsOf(page) == {page[i] : i \in 1 .. Len(page)}

PageProceeds == ~ page_stopped /\ page_answer \in {"none", "batch"}

ConcludePage(final) ==
  /\ page_answer' = final
  /\ UNCHANGED <<table, joined, consistent, last_rowid, page_stopped, delivered, pages, steady,
                 changes>>

\* The largest rowid of the page, and the cursor it started from.
ObservedMax(page) ==
  Greatest(IdsOf(page) \cup (IF last_rowid = NoRowId THEN {} ELSE {last_rowid}))

\* The guard against a page that would come back for ever.
Moves(page) == last_rowid # NoRowId => ObservedMax(page) > last_rowid

\* A feature of another reference system, or a cursor that does not move.
Refuses(page) ==
  \/ \E id \in IdsOf(page) : table[id].srs = "other"
  \/ page # << >> /\ ~ Moves(page)

NextPage ==
  /\ PageProceeds
  /\ \E limit \in PageSizes : \E page \in Answers(limit) :
       \/ Refuses(page) /\ ConcludePage("error")
       \/ page = << >> /\ ConcludePage("eof")
       \/ /\ page # << >> /\ ~ Refuses(page)
          /\ last_rowid' = ObservedMax(page)
          /\ page_answer' = "batch"
          /\ delivered' = delivered \o page
          /\ pages' = pages + 1
          /\ UNCHANGED <<table, joined, consistent, page_stopped, steady, changes>>

\* The CancellationReader around it.
AnswerPageStopped == page_stopped /\ page_answer \in {"none", "batch", "eof"} /\ ConcludePage("stopped")

\* The caller's token.
StopPaging ==
  /\ ~ page_stopped /\ page_stopped' = TRUE
  /\ UNCHANGED <<table, joined, consistent, last_rowid, page_answer, delivered, pages, steady,
                 changes>>

-----------------------------------------------------------------------------
(* Other connections *)

Change(ids, changed) ==
  /\ changes < MaxChanges /\ changes' = changes + 1
  /\ page_answer \in {"none", "batch"}
  /\ table' = changed
  /\ steady' = steady \ ids
  /\ UNCHANGED <<joined, consistent, last_rowid, page_answer, page_stopped, delivered, pages>>

Insert(id, feature) ==
  /\ id \notin DOMAIN table
  /\ Change({id}, [other \in DOMAIN table \cup {id} |->
                     IF other = id THEN feature ELSE table[other]])

Delete(id) ==
  /\ id \in DOMAIN table
  /\ Change({id}, [other \in DOMAIN table \ {id} |-> table[other]])

Update(id, feature) ==
  /\ id \in DOMAIN table /\ feature # table[id]
  /\ Change({id}, [table EXCEPT ![id] = feature])

PagingFinished == page_answer \in {"eof", "error", "stopped"} /\ UNCHANGED pagingVars

PagingNext ==
  \/ NextPage \/ AnswerPageStopped \/ StopPaging
  \/ \E id \in RowIds : Delete(id) \/ \E feature \in Features : Insert(id, feature) \/ Update(id, feature)
  \/ PagingFinished

PagingSpec == PagingInit /\ [][PagingNext]_pagingVars

-----------------------------------------------------------------------------
(* Properties *)

\* Whatever others write meanwhile: rows come in the order of their rowids and
\* none comes twice, an end of the layer means that every row nobody touched
\* was handed out, and even an inconsistent file comes to an end.
PagingIsExact ==
  /\ consistent => \A i, j \in 1 .. Len(delivered) : i < j => delivered[i] < delivered[j]
  /\ consistent /\ page_answer = "eof" => steady \subseteq IdsOf(delivered)
  /\ pages <= Cardinality(RowIds)

=============================================================================
