# A formal model of plenora-io-tools

plenora-io-tools reads, checks and converts tabular and geospatial formats. It
promises *quotas* that no interleaving may exceed or leak, *operations* that
accept all of a source or nothing of it, *cancellation* that reaches every part
of a pipeline, and *publication* that is visible whole or not at all, with an
error that says truly what was left on the disk. Of its ten formats it promises
that what a copy says is what the source said, or that the report announced the
difference. Its Python SDK adds a *call* that ends whatever its child process,
its reader threads and a Ctrl-C do. This directory models those parts in TLA+,
checks them with TLC on small instances, and proves with TLAPS, for every number
of pipelines, leases, tokens, threads, readers, batches and files, the results on
quotas, cancellation, reads, datasets, writers, commands, publication and the SDK's calls.

- [1 Inventory](#1-inventory): the parts of the system and what makes each one right
- [2 Modules](#2-modules): how each module corresponds to the code
- [3 Runs](#3-runs): questions, bounds, fairness
- [4 Proofs](#4-proofs)
- [5 Findings](#5-findings)
- [6 Assumptions and limits](#6-assumptions-and-limits)
- [7 Plan](#7-plan)

Paths below are relative to `crates/`: `budget.rs`, `clock.rs`, `cancellation.rs`,
`crs*.rs`, `projjson.rs` and `wkb*.rs` are in `plenora-io-model/src`, `publish.rs`
and `driver/*.rs` in `plenora-io-core/src`, `runtime.rs`, `segnali.rs`,
`operazioni.rs` and `lib.rs` in `plenora-io-tools/src`; `_process.py` is in
`sdk/python/src/plenora_io`; the driver of a format is `driver-<format>/src`.

## 1 Inventory

### How the parts interact

```
 host (CLI, Python, SDK)
   |  Invocation: PipelineContext = gauges + token + deadline   (runtime.rs)
   |  SIGINT -> cancel(); second signal -> exit                 (segnali.rs)
   v
 conversion pipeline (lib.rs, operazioni.rs)
   |  preflight -> observation -> open_layer -> next_batch ... -> write -> finish
   |
   +-- reader stack:  CancellationReader / BatchTargetReader / SingleReaderGate
   |                    \-- BudgetedReader + StagedSpool  (leases memory, spill, rows)
   |                          \-- the driver's reader: pages, cursors, row groups, a
   |                              spool, or BatchWorkerReader <- channel <- parser thread
   |
   +-- plan:  validate_write, geometry plan, planned loss  (driver/perdita_pianificata.rs)
   |
   +-- writer stack:  LimitedWriter  (leases output rows/bytes, declared totals)
                        \-- driver writer -> staging -> publish_file/_directory/_set
 Python SDK:  Runner (child process, two reader threads)  or  NativeRunner (a thread)
 shared underneath: Gauge (AtomicU64) of the pipeline and of the host's ResourcePool
```

Threads meet in six places: the gauges of `budget.rs`, the mutex of the source
observation, the bounded channel between a parser and its reader, the token
tree, the pipes of the SDK's `Runner`, and the channel of its native command.
Processes meet in four: the destination directory, the source file that another
program replaces between two passes, the tables of a GeoPackage, and the pipes.

### Components

| Component | State | Operations | What is hard | What makes it right |
|---|---|---|---|---|
| Quota gauges and shared leases (`budget.rs`) | `Gauge.remaining` per pipeline and per `ResourcePool`; live leases | `take_shared`, `give_back_shared`, `shrink_to`, `Drop` | lock-free loops over two gauges, rollback when the second refuses | quota is conserved at every step; a grant looks atomic; everything comes home |
| Per-operation counters, output ceiling (`budget.rs`) | `OperationBudget`: rows, bytes, components, concurrency | `lease_*`, `CountedLease::commit`, `Drop`, `try_take_bounded` | a ratio ceiling read before the swap, while input is still observed | free plus leased plus used is the limit; output keeps to the ratio of the whole source |
| Source observation and input permit (`budget.rs`) | `Collecting` / `Published` under a mutex; the permit | `note_entry_visited`, `observe_input` | several threads count entries; publishing once | nothing is counted after publication |
| Cancellation (`cancellation.rs`, `clock.rs`) | per token: reason, waiters, weak children, deadline | `cancel`, `cancel_due_to_deadline`, `child_token*`, poll and drop of `Cancelled` | registration against cancellation, child creation against the walk of the tree | no lost wakeup; children are reached; the first reason stored is kept, and only the Deadline of the clock gives way to it |
| Background parser (`driver/batch_worker.rs`) | bounded channel, the reader's final answer | `send`, `send_cancellable`, `next_batch`, drop | backpressure, capacity 0, reader dropped while the parser is blocked, panic | batches in order, one final truthful answer, nobody left blocked |
| Operation-atomic reader and spool (`driver/reader_adapters.rs`, `driver/spool.rs`) | drained flag, kept error, spool stage, memory queue, file, reservation | `drain_operation`, `push`, `migrate_to_disk`, `seal`, replay | failure half way; free memory read before it is leased | no prefix is accepted; memory and volume bounded; an ended read holds nothing |
| Reader adapters (`driver/reader_adapters.rs`) | current token, rebatching remainder, gate flag | `CancellationReader`, `BatchTargetReader`, `SingleReaderGate` | the gate must open again on every way out | one reader at a time, freed once |
| Format readers | what `open` saw; a position in pages, cursors, row groups, events or cells | `open`, `open_layer_reader`, `next_batch` | the file changes between two passes; cursors that must agree; statistics that lie; cells and events out of order; damaged files | rows fit the contract, none twice, none missing, none misaligned |
| Geometry, CRS and attribute values on their way | a value in each of the forms a conversion keeps it in | codecs, texts, `validate_write`, planned loss, the writers' cells | six codecs of one payload; a form that cannot hold what another can | what comes back is what was there, or the plan refused or announced it |
| Format writers | staging of the driver | `create`, `write`, `finish` | a batch that is refused half way | a published document holds every accepted row and is closed |
| Writer wrapper (`driver/scrittura_limitata.rs`) | declared and written totals, `failed` flag | `write`, `finish`, `declare_input_total` | a write that failed half way | no publication after a failed write or with wrong totals |
| Publication (`publish.rs`) | staging, destination names, fsync state, rollback | `publish_file`, `publish_directory`, `publish_file_set` | other processes on the same names, a stop during a long fsync, rollback that fails, kill and power loss | what is answered is what is on the disk; the marker means the whole set; nothing is clobbered |
| Conversion pipeline, runtime binding, signals | the composition; first or later signal | `cmd_read`, `cmd_write`, `cmd_convert`, `Invocation`, signal handler | an error after the publication; a second signal | the answer and the destination agree; every command answers |
| SDK process runner (`_process.py`) | child, two pipes and their readers, `guasto`, `conclusione`, the token of the frame | `Runner.run`, `_attendi`, `_chiudi`, `_leggi` | a grandchild that holds the pipes, a Ctrl-C between any two steps of the cleanup | no partial success; no wait without a limit; no child left in silence |
| Native command (`plenora-io-py/src/lib.rs`) | token, `scaduto`, `dal_segnale` | `esegui`, `NativeRunner.run` | outcome, signal and timeout in one interval | an answer only after the command has stopped, and the right one |
| Envelope, CLI and capability documents; SDK client, models and errors; benchmarks, fuzzing, vendored crates | none shared between steps | formatting, argument parsing, tooling | wording, not control | not modelled: see [section 6](#6-assumptions-and-limits) |

`PROJECT.json` lists the same components with their status, and 40 hazards,
each at the line where it bites and with the properties that would catch it.

## 2 Modules

| Modules | Role | Code |
|---|---|---|
| `Totals` | sum of a function over `1 .. n`, as a recursive function, and lemmas on it | none |
| `QuotaLedger` <- `SharedQuota`, `BudgetProofs` | leases granted in one step under all their gauges; the gauges, one load or swap a step | `budget.rs` (INV-12) |
| `OperationBudget`, `BudgetProofs` | source observation, permit, counters, ceiling | `budget.rs` |
| `BatchStream` <- `BatchWorker`, `ReadProofs` | batches in order, one final answer; parser thread, channel, reader | `driver/batch_worker.rs` |
| `AtomicRead` <- `BudgetedRead`, `ReadProofs` | all of the scan or nothing; the read and its spool | `reader_adapters.rs`, `spool.rs` (INV-8) |
| `Cancellation`, `CancellationProofs` | token tree, futures, clock | `cancellation.rs`, `clock.rs` |
| `LayerReaders`, `ReadersProofs`, `ColumnTypes` | one dataset of eight formats, open to last reader, with the adapters around it; type inference | `driver-*/src/lib.rs`, `reader_adapters.rs`, `driver-common` |
| `GpkgPaging`, `RowGroupPruning`, `ShapefileRows`, `ReadersProofs`, `ShapefileStructure`, `DriverProofs` | pages, row-group statistics, three cursors, structure checks | `driver-gpkg`, `driver-geoparquet`, `driver-shp` |
| `SheetCells`, `DriverProofs`, `PlacemarkStream` | worksheet cells in their frame; KML events and the calls that read them | `driver-xls`, `driver-kml` |
| `WellKnownBinary`, `ShapefileGeometry`, `GeometryText`, `GeometryPath` | six codecs, the shapes, WKT and GeoJSON, and a geometry through a conversion | `wkb*.rs`, `ewkb.rs`, drivers |
| `CrsPath`, `DriverProofs` | what an id and a definition say, and a CRS through a conversion and back | `crs*.rs`, `projjson.rs`, `perdita_pianificata.rs`, drivers |
| `AttributePath`, `DriverProofs` | a column of attributes in each place that holds it, and through a conversion and back | `driver-common`, `capabilities.rs`, `perdita_pianificata.rs`, drivers |
| `CrashAtomic` <- `Publish`, `WritingProofs` | visible whole or not at all, also after a crash; the three publish functions | `publish.rs`, `docs/PRODUCT.md` |
| `FormatWriters` < `LimitedWriter` < `Conversion`, `WritingProofs` | ten backends; the wrapper that meters them; a command from invocation to answer | drivers, `scrittura_limitata.rs`, `lib.rs`, `runtime.rs`, `main.rs` |
| `SdkRunner`, `NativeCommand`, `SdkProofs` | one call of the SDK on either backend | `_process.py`, `plenora-io-py/src/lib.rs` |
| `MCBudgets`, `MCThreads`, `MCSdk`, `MCWriting`, `MCReaders`, `MCValues`, `MCDocuments`, `MCDrivers` | instances for TLC | |

`A <- B` says that `B` is shown to implement `A`, through `INSTANCE ... WITH` and a
refinement mapping; each of the refinements is a property of a run. `A < B`
says that `B` extends `A`. An instance module may put several systems that
share no variable beside one another: one variable (`half`, `part`, `topic`) says
which of them the behaviour is of and never changes, the others rest in one
state. That is a way to run them together, not an interleaving of them. The
definitions whose comment starts with `Mutant:` are not part of any
specification: each is a plausible bug of the definition below it, and shows
that some property would notice.

### SharedQuota

A holder is the owner of one lease. Its `pc` walks the code of `take_shared` (`take_local`,
`take_pool`, and `undo_local` for the rollback when the pool refuses) and of
`give_back_shared` (`give_local`, `give_pool`), which is reached from `shrink_to` or
from a drop. Each place is a loop of `Gauge`: `Load` is the load that opens it,
`Retry` a compare-and-swap that lost the race, and `TakeLocal`, `GivePool` and so
on the swap that succeeds. `seen` is the value the loop computes with, so any
step of any other holder falls between a load and its swap. `GiveBack` keeps
the clamp to the capacity of the code. Memory and spill are the same code
over two gauges; one is modelled. `active` is what `ensure_active` answers.

### OperationBudget

The observation and the permit change under a mutex, in one step. A lease reads
its ceiling (`try_lease`), loads the counter and swaps it in separate steps, so that a
publication or another lease falls between any two of them; `give_back` adds to
the value its last swap saw and is one step. What a commit uses is gone for good,
what is left comes back. A slot of the concurrency gauge is a lease of one that is
only dropped.

### Cancellation

One step per atomic access and per locked region. `cancel_tree` is `Visit`
(swap of the reason, from an explicit stack), `TakeWaiters`, `Wake` and
`Spread` (the children still reachable go on the stack with the propagated
reason). `child_token` is `MakeChild` (the child enters the parent's list) and
`Adopt` (the parent's reason is read again). The future is `Poll`, `Register`,
`Recheck`, and its drop. Weak references are modelled by `Reachable`: a token
stays while a caller holds a handle or a running walk has it on its stack.
`Reason` looks at the flag first and then at the clock, so a token expires
without a step.

### BatchWorker

The parser closure of a driver is the most general one: it builds the batches
in order, sends each with `send` or `send_cancellable`, may probe the reader,
fail, see the token cancelled, or panic. The channel is the standard library's
`sync_channel`, modelled as external: `Push` needs room, and a rendezvous
channel (capacity 0) has room only while the reader waits in `recv`.
`send_cancellable` is its loop: `CheckToken`, then `TrySend`, which goes back
when the channel is full. `Vanish` is the fault `abnormal_termination` guards
against, a thread that ends outside `catch_unwind`.

### BudgetedRead

`at` walks `next_batch`: `Size` reads the free memory and `LeaseMemory` leases
it in a second step, as the code does, with other operations in between;
`CheckBatch` has the guards in the order of `drain_operation`; `PushMemory`,
`StartMigration`, `Migrate`, `EndMigration`, `WriteBatch` and `Seal` are the
spool, where `Write` lets the buffered writer hold the batch back, write what it
had, or write everything, each physical write covered by `Reservation`
(`SpillGuard::reserve_for`: a chunk first, then exactly what is missing).
An error closes the file (`CloseFile`) and then returns the quota
(`ReturnQuota`), the order in which the fields of a stage are dropped. One
counter, `rows`, stands for the three cumulative counters that are
leased and committed in the same way.

### LayerReaders, ColumnTypes

A dataset from `FormatDriver::open` to the last reader of its layer. Three kinds
of driver are told apart by when they look at the file: twice, at `open` to infer
a contract and again for every reader (csv, geojson); once, into a spool (kml,
dxf, xls); or for a contract the file declares (ipc, geoparquet, filegdb). Another process
may put another file at the path at any time; an open handle keeps the file it
opened. `ColumnTypes` is the inference and what the builder of a column
does with a cell of each `ObservedValueClass`. Around the driver's reader are the
check the `BudgetedReader` makes of every batch, the cancellation and rebatching
adapters and `SingleReaderGate`, whose lease is modelled with every way out.

### GpkgPaging, ShapefileRows, RowGroupPruning

`GpkgPaging.next_batch` is one query past the last rowid; between two of them
other connections insert, delete and move rows, and an inconsistent index may
answer with any rows. `ShapefileRows` has three cursors, over the shapes, the
active records of the `.dbf` and its physical records (for exact integers), with
the columns of the row that each finds, and either file may be replaced between
the two opens. `RowGroupPruning` is `gruppi_da_leggere`: statistics are in the order of the
column's logical type and stored in its physical one; a row group is skipped only
when no row of it can match.

### ShapefileStructure

What driver-shp looks at in a `.shp`, `.shx` and `.dbf` before it hands them to
the crates `shapefile` and `dbase`, which trust the numbers of a file. The crates
are external, modelled from what the driver's comments say of them: they reserve before they read,
double lengths in 32 bits, seek by the index, decode deleted records and count
only the others. Each is the sequence of its reads over the same cells, ending well, with an
error, or in a panic; `AdmittedFileIsSurvived` says that a file the driver admits never
makes them panic.

### SheetCells, PlacemarkStream

`SheetCells`: calamine gives cells in the order of the file; `infer_layout` finds
the frame and the header, `for_each_dense_row` fills the rows, `date_native` decides
what a serial number is. `PlacemarkStream`: each method of the KML driver that reads an
element is a frame of the calls in progress; the start of an element pushes one,
its end pops it and gives its value to the caller. Each is checked against a
definition that looks at the whole sheet or the whole document at once.

### WellKnownBinary, GeometryText, ShapefileGeometry, GeometryPath

Six codecs walk the cells of one payload: the decoder, the inspection, gpkg's emptiness,
geoparquet's box, the shape and the encoder; they are folds and recursive operators over the same
cells, each with its own budget and errors as in the code. `GeometryPath` is what a conversion
does with one geometry: plan, inspection on both sides, EWKB to WKB, the driver's form, and the
reader of the copy. `GeometryText` has the tokens of WKT and the tree of a GeoJSON
object. `GeometryIsKept` says that the six agree, that what is stored reads back as
the source or was refused, and that what is read from a text is written as that text.

### CrsPath, AttributePath

`CrsPath` begins with what an identifier and a definition say of a CRS: its identity, its kind and
the order of its axes. On top of that it reads the CRS of a layer with the driver of the source, admits it, computes the planned loss, writes the copy and reads it back with
the reader of *its* format: a lost or changed part must have been announced.
`AttributePath` does the same for a column of values, through the classes of numbers, texts and dates that
Arrow, GeoPackage, DBF, XLSX, CSV and GeoJSON tell apart. The type a reader infers is made of the *set* of the
classes it met: that this is what observing one cell after the other gives is a lemma (`ObservedOneByOne`).

### FormatWriters, LimitedWriter, Conversion

A document is the sequence of parts that reached the staging, so that a row
cut in two, a missing footer or a batch written twice can be seen.
`LimitedWriter` checks a batch, leases its rows and bytes, calls the backend and commits, in two
steps; `finish` compares the totals and publishes. `Conversion` runs it from the command line
(signals included), from the runtime binding (deadline token, private directory of a streamed
delivery, the last control) and from a library caller who goes on after any answer. The private
directory may fail to be created (`PrepareDelivery`) and to be removed (`CloseDelivery`): a failed removal is
the answer `unremoved` (`Consegna::Rimozione`), whatever the operation answered, and the file may stay. The reader of
a command is the one `AtomicRead` promises, its publication what `Publish` answers.

### Publish

`mode` is the function called, `platform` the `cfg` variant of the
exclusive rename, `durable` the profile. Everything up to the last look at the
context is `Prepare`; `Rename`, `Unlink` (the second half of the fallback that
links and removes), `Undo` and `Finalize` are the rest. Other processes create
and remove files of the same names between any two steps. `Kill` ends the
process anywhere; `PowerLoss` reverts the names that no directory fsync covered
to either of their values and may damage contents that were not synchronised.
`dest` is what everyone sees, `entries` what is certainly on disk.

### SdkRunner

`place` is where the caller's thread is, from `registra_avvio` through `_attendi`
(`start` to `gather`), `Decode`, `_chiudi` (`poll` to `confirm`), the verdict of
`_esito` and the `finally` of `run` (`last` to `conclude`). Each `_Lettore` is a
thread of its own: it begins, reads blocks or meets the end or a failure
(`Read`, `ReadFails`), records it (`Finish`), and leaves when the run is over
(`Leave`), which it learns from `conclusione` or from the death of the token
(`RunFinished`). `Claim` is `reclama`, `Close` the `close()` that follows it and
waits as long as another thread is inside a read of the same `BufferedReader`,
`Confirm` the assignment that hands the pipe over. The child exits when it
likes, whether it was sent a signal or not; a grandchild may keep the pipes open.
`Strike` is an exception that is no `Exception`, a Ctrl-C above all: it
hits a step of the work, is collected by the handler of a step of `_chiudi`,
escapes between two steps, or hits the `finally`. Where the SDK forwards SIGINT
to the child there are fewer such strikes, so nothing is lost by not modelling it.
`closing` are the locals of `_chiudi`; locals are reset when their frame ends.
Contents are block counts; the envelope is right or wrong.

### NativeCommand

`Send` and `Vanish` are the thread of the command, `Receive`, `Look` and `Match`
the three parts of the loop of `esegui`, `AnswerTo` what `NativeRunner.run`
makes of the result. SIGINT, a signal with a handler that raises and the
timeout come at any moment until there is an answer.

## 3 Runs

| Run | Module | Question | Properties |
|---|---|---|---|
| `budgets` | `MCBudgets` | Is quota conserved at every swap, does a grant look atomic, does output keep to its ratio, does an operation accept all or nothing and return what it took, do batches arrive in order with one true final answer? | `Conservation`, `LedgerSpec`, `StoppedProcessReturnsQuota`, `CountersConserved`, `OutputWithinCeiling`, `QuotaIsKept`, `NothingIsLost`, `ReadSpec`, `TotalIsExact`, `StreamSpec`, `ReadsAreAnswered` |
| `driver_readers` | `MCDrivers` | Do the readers deliver what is in the file, once and aligned, whatever changes meanwhile? Does a geometry, a CRS, a column, a sheet, a KML document survive the way through a format? | `DeliveredFitsContract`, `UnchangedFileIsDelivered`, `GateIsExact`, `PagingIsExact`, `RowsStayAligned`, `PruningKeepsMatches`, `GeometryIsKept`, `CrsIsNotMisread`, `AdmittedFileIsSurvived`, `CellsComeBack`, `SheetIsReadWhole`, `PlacemarksAreReadWhole` |
| `threads` | `MCThreads` | Do reasons go down the token tree and stay, is a suspended future ever forgotten; is a process call whole, and its child never forgotten? | `StopsGoDown`, `NoLostWakeup`, `FirstReasonStays`, `SuccessIsWhole`, `NeverClosesUnderReader`, `ChildIsNotForgotten` |
| `sdk_live` | `MCSdk` | Does every call of the SDK end, with the answer it deserves? | `ProcessCallEnds`, `AnswerIsDeserved`, `NativeStopIsAnswered` |
| `writing` | `MCWriting` | Is what a command answers what is in the destination, under stops, failures, other processes and crashes? | `WriterIsTruthful`, `SuccessIsComplete`, `NothingIsLeft`, `CommandAnswers`, `OutcomeIsTrue`, `NeverClobbers`, `ObservedStopPublishesNothing`, `CrashAtomicSpec` |
| `foxpro_end`, `geojson_nesting`, `driver_spool`, `unsigned_pruning`, `xlsx_frame`, `conversion_late`, `native_command_late` | | violations: see [section 5](#5-findings) | one each |

What each property says is in the comment above it in its module, or above the
definition it names: `GeometryIsKept` and some of
`MCBudgets` are conjunctions of the properties of the modules below.

### Bounds, and why they are enough to meet the interesting cases

- *Shared leases*: two holders of one pipeline and one of another are the least
  for which a local gauge and the pool are both contended at once; capacities 2 and 1 for the
  pipelines and 2 for the pool, with requests up to 2, make local refusal, pool refusal with rollback and
  success reachable from one state. *Counters*: three leases on two counters, a ratio of 2
  and one entry whose bytes are 0 to 2, so that a ceiling is read before, during and after the publication.
- *Budgeted read*: memory 8 with a threshold of 4 while the accounted sizes are 2
  and 3, so a source of three stays in memory or migrates according to what it is
  made of; other operations take 5 units of memory and 3 of 5 of spill (chunk
  3), so a lease is refused between the look and the lease, and a reservation
  finds room for a chunk, for the exact amount, or for neither. *Worker*:
  capacities 0 to 2 with three batches are the rendezvous, a channel filled by one
  event, and one in which events queue.
- *Datasets*: files of up to three rows, every class of cell alone, in pairs,
  and with a row that fails late; two readers; batches of one row. *Pages*: rowids -1 to
  1, one change by others, pages of one or two rows. *Shapefile rows*: three shapes and three records. *Pruning*: two
  rows of 2-bit numbers, signed and float, with NaN and null.
- *Values*: each geometry type with each dimension, and every payload that
  differs from an encoded one in one cell changed, cut or added; likewise
  texts with one token, a tree with one branch, and damaged files with one number changed. A CRS with
  identifiers and definitions that agree, contradict, repeat or leave out, in each place its format has for them.
- *Documents*: every class of value alone and in pairs in a column; sheets of two
  columns with one cell missing, repeated or misplaced; KML documents that differ from a good one by
  one event inserted, removed or replaced.
- *Tokens*: three make a chain (a grandchild) and a fan; two threads are a
  canceller and a child maker, or two cancellers that meet in one subtree. *SDK*:
  one block per stream is the least that tells an answer read in part from a whole
  one, and two interruptions are the most that `ChildIsNotForgotten` promises
  anything about (a third may leave the child, as its comment says).
- *Writing*: three rows, a source of two layers, one with an empty batch, one whose
  odd row comes after a good one; a library caller with four batches. Three files of a set are the least with a
  companion before, a companion after and a marker.

In the passing run of the drivers the following inputs are left out, each
because it shows a finding of section 5: unsigned columns, texts with a list of
one number, complete FoxPro tables, sheets with cells below the declared last row, the empty text in an XLSX column that is not nullable (section 4). The boxes leave out row groups
that hold a box across the antimeridian beside other boxes (section 5).

**Reading deadlocks.** TLC's deadlock check is on in every run: where the
system may rest, a `Finished` or `Off` step says so.

### Fairness

- *A call that has started runs to its end*: `WF(CallStep)` of a lease and of a
  read, `WF(Step)` of a command, `WF(Wait)` of a reader. This is the scheduling
  of an operating system thread that is runnable.
- *A lease is dropped*: `WF(Release)` in `SharedQuota`. A lease is a scope-bound
  Rust value; its owner leaves the scope by return or by error.
- *A parser reaches its next batch or its end*: `WF(Parse)`. Drivers parse
  finite inputs; a parser stuck in a read for ever is outside the model.
- *The threads of the SDK are scheduled, and a wait with a timeout ends*:
  `WF(CallerStep)`, `WF(ReaderStep)`, `WF(PythonThread)`. Nothing makes the child or the
  grandchild exit, not even a signal; a cancelled native command ends (`WF(cancelled /\ Command)`).
- Nothing makes a caller call, release, cancel, drop a handle or stop, and
  nothing makes the clock go on. `Cancellation` has safety properties only.

Liveness is claimed only where this is enough. In particular, "a *stopped
pipeline* gets its quota back" is not a property of this code: the loops of `Gauge` are
lock-free but not wait-free, and a busy pipeline on the same pool may win every
compare-and-swap against the drop of a stopped one. `StoppedProcessReturnsQuota`
therefore asks that all pipelines have stopped.

## 4 Proofs

| Theorem | States |
|---|---|
| `BudgetProofs!TypeCorrect` | `Spec => []TypeOK`: the gauges never leave the naturals |
| `BudgetProofs!QuotaConserved` | `Spec => []Conservation` |
| `BudgetProofs!LeasesAlwaysCounted` | `Spec => []LiveLeasesAreCounted` |
| `BudgetProofs!LedgerImplemented` | `Spec => LedgerSpec` |
| `BudgetProofs!NoUnitLost` | `BudgetSpec => []CountersConserved` |
| `BudgetProofs!RatioHolds` | `BudgetSpec => []OutputWithinCeiling` |
| `BudgetProofs!FootprintSealed` | `BudgetSpec => FootprintIsFinal` |
| `ReadProofs!NothingLost` | `WorkerSpec => []NothingIsLost` |
| `ReadProofs!WorkerStreams` | `WorkerSpec => StreamSpec` |
| `ReadProofs!QuotaKept` | `BudgetedSpec => []QuotaIsKept` |
| `ReadProofs!TotalExact` | `BudgetedSpec => []TotalIsExact` |
| `ReadProofs!ReadIsAtomic` | `BudgetedSpec => ReadSpec` |
| `CancellationProofs!StopsReachAll` | `Spec => []StopsGoDown` |
| `CancellationProofs!NoWakeupLost` | `Spec => []NoLostWakeup` |
| `CancellationProofs!FirstReasonKept` | `Spec => FirstReasonStays` |
| `ReadersProofs!GateExact` | `Spec => []GateIsExact` |
| `ReadersProofs!FitsAlways` | `Spec => []DeliveredFitsContract` |
| `ReadersProofs!DeliveredWhole` | `Spec => []UnchangedFileIsDelivered` |
| `ReadersProofs!PagingExact` | `PagingSpec => []PagingIsExact` |
| `ReadersProofs!PruningSafe` | `PruningSpec => []PruningKeepsMatches`, without unsigned columns and boxes round the antimeridian |
| `ReadersProofs!RowsAligned` | `RowsSpec => []RowsStayAligned` |
| `DriverProofs!AdmittedSurvived` | `StructureSpec => []AdmittedFileIsSurvived` |
| `DriverProofs!SheetReadWhole` | `SheetSpec => [](NoCellIsBelow => SheetIsReadWhole)` |
| `DriverProofs!CellsCameBack` | `AttributesSpec => [](NothingIsLeftOut => CellsComeBack)` |
| `DriverProofs!CrsNotMisread` | `CrsSpec => []CrsIsNotMisread` |
| `WritingProofs!OutcomeTrue` | `Spec => []OutcomeIsTrue` |
| `WritingProofs!ClobbersNothing` | `Spec => NeverClobbers` |
| `WritingProofs!StopIsObserved` | `Spec => ObservedStopPublishesNothing` |
| `WritingProofs!OneAct` | `Spec => CrashAtomicSpec` |
| `WritingProofs!WriterTruthful` | `CommandSpec => []WriterIsTruthful` |
| `WritingProofs!SuccessComplete` | `CommandSpec => []SuccessIsComplete` |
| `WritingProofs!NothingLeft` | `CommandSpec => []NothingIsLeft` |
| `SdkProofs!SuccessWhole` | `RunSpec => []SuccessIsWhole` |
| `SdkProofs!ClosesOutsideReaders` | `RunSpec => []NeverClosesUnderReader` |
| `SdkProofs!ChildFollowed` | `RunSpec => []ChildIsNotForgotten` |
| `SdkProofs!NativeAnswerDeserved` | `Spec => []AnswerIsDeserved` |

A specification without a fairness of its own is the one named in the module
(`Spec`, `BudgetSpec` of `OperationBudget`, `WorkerSpec` of `BatchWorker`, `BudgetedSpec` of
`BudgetedRead`, `PagingSpec` of `GpkgPaging`, `PruningSpec` of `RowGroupPruning`, `RowsSpec` of `ShapefileRows`,
`StructureSpec` of `ShapefileStructure`, `SheetSpec` of `SheetCells`, `AttributesSpec` of `AttributePath`, `CrsSpec` of `CrsPath`, `CommandSpec` of `Conversion`, `RunSpec` of `SdkRunner`); the runs check the same properties
of the same definitions, with the fairness added.

The assumptions are on the parameters only, and each is a named `ASSUME` that TLC evaluates
in a run. Shared quota: any set of pipelines, any number of holders, any
assignment of holders to pipelines, pooled or not, any capacities. Counters: any number of leases,
any counters, capacities and ratio. Worker: any number of batches, any set of channel
capacities. Budgeted read: any source over batches whose rows and sizes are naturals, any threshold, chunk, free memory and
volume, any load of the other operations. Cancellation: any numbers of tokens, threads and futures and any deadlines. Layer readers:
any files and replacements, with any rows, geometry types and declared contract, also
one that its rows contradict, any readers and limits. Pages: any finite set of rowids, any set of positive page sizes, of
which every page may have another, any number of changes by others. Pruning: any row groups, any width of the integers, any boxes and hints
of integers. Shapefile rows: any sequences of the classes of shapes and of records, any scopes, any positive batch sizes. Shapefile structure: any `.shp` and
`.shx` of words with a sign, any `.dbf` of counts. Worksheets: any sheets whose cells and frame are
in places, any requests, texts of geometries and numerals. Attributes: any columns of any number of cells of the listed types, over any texts, and any names beside them. CRS: any files whose
definitions are trees over any strings, any identifiers assumed, any formats written. Command: any of the three hosts, any sources of layers of
batches (also none, empty or refused half way), any batches of a library caller, any limit of rows and of slots. SDK: any
number of blocks and of interruptions; the pipe has room for one block, as in the runs.
The theorems on publication hold for any number of files of at least one
(a set has its marker), which they state as their own assumption. `NativeCommand` has no parameter.

**Shared quota.** `Conservation` (remaining plus what holders have charged is the
capacity, per gauge) is not inductive alone. The inductive invariant is
`IInv == TypeOK /\ Control /\ Conservation`: `Control` says that only holders of
pooled pipelines are ever at the pool, and that a holder in the middle of a
request has a request. A step of one holder changes one gauge and the charge of that holder by
opposite amounts; the sum over the others is untouched. The clamp in
`give_back` needs care: it is the identity only because `Conservation` at the
state before bounds `remaining + amount` by the capacity, which is also why the
proof of `TypeOK` goes through `Conservation`. `LiveLeasesAreCounted` follows
because a lease never exceeds what its holder is charged. For `LedgerImplemented`,
only the swap that ends `take_shared` maps to `Grant`, and its guard, "it fits under
every gauge", is `Conservation` together with the swap's own comparison, plus the
fact that the local charge was made before; `Shrink` and `Release` map to
`Reduce`, and every other step is a stutter.

**Operation budget.** What is free, on lease and used by commits is the capacity of
each counter: a step of one lease changes its own share and the counter by
opposite amounts. `OutputWithinCeiling` needs, of a lease between the reading of the ceiling and its
swap, that the ceiling it read is the one of the final footprint, which holds
because the operation asked for output only after the publication and the footprint is then final
(`FootprintSealed`); the swap compares with the value it loaded, so a race is lost and never overdrawn.

**Cancellation.** `NoLostWakeup` is about a future that sleeps on a cancelled token. The
invariant (`WakeInv`) says where such a future can be: registered futures are in the list
of their token, in the hands of the thread that took the list, or woken; a thread holds
taken waiters only while it wakes them; and a token whose reason is set has its list taken
next by the thread that set it. What is on the stacks of the walks does not matter, a walk
that comes twice only wakes more. `FirstReasonStays` says that what a token answers changes at most once, when a
cancellation stores its reason in one that answered `Deadline` by the clock alone. It needs, beside the swap that
never overwrites a reason, that tokens are numbered in the order of their creation: a new child takes
a place no token is at, so no other token sees its deadline change, and a token that was not made has none.

`StopsGoDown` speaks of the instant when nobody is inside a call, so its invariant
(`StopInv`) says where the stop is before that: a held token a cancellation has not
reached yet, under a cancelled parent, is in some thread's way. It is being made and
will read its parent's reason again (`adopt`), or it is on the stack of a walk, or its
parent is the token a walk is at and whose list it has not taken (`UnderWay`). For that every held
child is in its parent's list (`TreeOK`), also after the list was pruned of dead children, and a token is told
`parent` only under a parent that was cancelled (`Told`). That nothing outlives the deadline above is `TreeOK` again:
a child is given the smaller of the two deadlines, and none changes.

**The gate.** `GateInv` is `GateIsExact` with the shape of a reader's record. Each way a reader
goes on either keeps its lease or gives it back together with the gate, and a lease is taken
only by a reader that finds the gate free.

**Delivery.** The two theorems share `DeliveryInv`. `PassesOK` is what the passes of `open` know: the
accumulator was told of the class of every row they took, and the column `ColumnType` makes of such an accumulator holds
each of these classes exactly (`ColumnHoldsTold`, a lemma on `ColumnTypes` alone); the contract has the
types of the rows seen or is the file's own; the spool is the rows of the
handle. `GoodReader` is what a reader is in the middle of: it has delivered the first rows of *one* source, keeps the
next ones, and all of them have been parsed. `DeliveredFitsContract` follows from what was checked before a batch went out, whatever the
source is; `UnchangedFileIsDelivered` because one file under all passes (`OneSourceIs`) makes the rows
of the reader the ones the accumulator was told of, so that a refusal can only
come from what `open` does not look at (`Unjudged`). Csv reads the file twice in `open`, so
its contract may come from two files; `PassesOK` keeps one of them per pass.

**Pages.** `PagingInv` relates everything to the cursor. What was delivered is in order and not beyond it; a row
that nobody touched is beyond it or was delivered (`OrderKept`), which a page keeps because it is the *first*
rows past the cursor: a row that the limit leaves out is after the last one of the page. The number of pages is at most that of the
rowids the cursor has passed (`PagesKept`): that needs no order of the answer, only the guard `Moves`, so it holds for an inconsistent index too.
A change by others takes the row it touches out of `steady` and leaves the rest where it was. The lemmas are about `Rank`, the place
of a rowid in a finite set: it grows with the rowid and every place is taken, so `InOrder` lists a set whole and once.

**Row groups.** Nothing is remembered here, so the invariant is the typing of the row group and what a skip says of it. Every
number of a column lies between the statistics (`ExtentHolds`), which have a least and a greatest number because the column of a group is finite;
nulls and NaN leave no trace in them and satisfy no predicate. The proof shows what each exclusion is for:
`ExtentHolds` is false of a type stored in another order than its own, and a box that goes round is met outside of the span
between its edges.

**Shapefile rows.** The three cursors are in step when the iterator of the active records has given as many as are active
among the physical records seen: `RowsInv` says so with the same `Rank` (`ScanAligned`). Then the record it gives next for an
active row is that row's own (`InStep`), the rows made are the first rows of the layer (`Aligned`), and as many as records were given
until one is rejected. At the end the iterator has nothing left, so all active records were given, and nothing rejected means that all
of them became rows; that no shape is left over is what `CardinalityHolds` compares. When the two readers of the `.dbf` met
different files nothing is claimed of the rows.

**Shapefile structure.** What the driver found out about a file stays true of it, since nothing changes the file
(`StructureInv`). The proof is then about one file: every reservation of the crates is for a content the driver has seen to fit
(`HeldContentIsSurvived`), the parts of a shape are in order and so cut no negative length
(`OrderedPartsArePositive`), no record is sought beyond the end (`NoRecordIsBeyond`), and the records a crate counts are those
the driver counted. The walk over the records is the same recursive function in the driver and in the crate, so the two agree without an
induction.

**Worksheets.** `SheetInv` relates what has been read to the first `taken` cells of the file, where `Place` is the last value they give a
place. While the frame is being found it is the least that holds these cells (`FrameHolds`); while rows are filled they and the row in hand have
the value of every place (`RowsHold`, `ValuesHold`), and the cells taken are those of the rows passed (`TakenHolds`); a column's kind has room for every value met in it
(`KindsHold`), so that a number kept as a date in a column of dates is one. A cell below the declared frame is never taken. Hence the hypothesis `NoCellIsBelow`,
and the run `xlsx_frame` shows that it is needed.

**Attributes.** `AttributeInv` says of each stage what it has of the one before. A batch has cells of its column's type, and each says what the
file may have meant (`Reads`): for a DBF text in *every* encoding its `.cpg` and its byte leave open
(`EncodingAgrees`), because bytes on which ANSI code pages differ are refused. What is stored is what the format wrote of each cell.
Reading back, a column that infers types gets one that holds exactly every class met in it
(`TypeHoldsItsClasses`), so nothing is rounded or refused (`InferredHolds`), and a text is never met as a
number (`Serves`); in a GeoPackage the declared type decides, and the check of the affinity is what keeps a text like a
number out of a DATE column (`GpkgKeeps`). `NothingIsLeftOut` leaves out an XLSX column that is not nullable: the library may
drop the cell of an empty text, the plan announces no nulls for such a column, and the inputs of the run leave out the empty text there for
the same reason.

**CRS.** `CrsInv` only says that each stage is what the drivers made of the one before; the rest is about the drivers. What any of them
reads is `Legible`: typed, and resolved or unresolved only if it declares something (`OpenIsLegible`). One lemma per destination then says
that what is written of a legible contract that was admitted is read back as announced (`Answers`). The two that carry the CRS in a
definition need that the identifier their readers find is the one the plan asked for, and that the definition contradicts no other spelling
of it (`DefinitionAnswers`); GeoPackage, that its row is in capitals and still the same identifier (`GpkgAnswers`); Arrow and GeoParquet, that the
metadata they are given agree with the key beside them, in kind as well (`KindsAgree`, `KeyAgrees`). `OpenFillsIn` compares the readers with and
without an assumption: a definition that declares its identifier wins over it, but for the letters of the authority (`FoundAlike`).
The strings, the authorities in other letters and the codes that are integers are parameters.
`OrganizationIsNamed`, in the property itself, leaves out a GeoPackage of `NONE`: see the observations of section 5.

**Background parser.** `WorkerInv` puts what is between the parser and the caller in line: the
batches in the channel and in the hands of the two threads are consecutive, start after those
returned and end with the last one parsed unless the parser failed (`InLine`); there is one terminal event,
after everything else, and the thread is gone when it is sent (`OneTerminal`); an answer that
is final stays (`FinalAnswer`). In `WorkerStreams` the step that hands a batch over, or the
final answer, is the step of `BatchStream`; all of the channel is a stutter.

**Budgeted read.** `ReadInv` has a part per resource. `MemoryKept` and `SpoolKept` say, for each place of
`next_batch`, what is leased for the batch in hand and for each stage of the spool, and that
the file never holds an unreserved byte. `ScanKept` is the one the promise rests on: until a violation or an error
what is delivered, on disk, in the queue and in hand is, in this order, the scan as far as it was read; what the source
has left continues it; and the drain ends with the whole of it, limit included.
`EndKept` says that an error kept is the one answered and that an end has closed the spool.
`ReadIsAtomic` maps the answer of a call to the answer of `AtomicRead` and everything before it to a stutter.

**Publication.** The invariant (`PublishInv`) counts the files: while renaming, ours are
exactly `1 .. k-1`; on the way back, where the exclusive rename is at hand, `1 .. k` and those that could not
be undone, which are beyond `k` and make `rollback_failed` true; so the marker, the last,
is ours only when all are. Contents are synchronised before the first rename. `Record` adds that a
directory fsync has seen our names only at the end of a success, which is what a loss of power goes back to.
`NeverClobbers` follows because a rollback only touches ours, `ObservedStopPublishesNothing` from an invariant
that holds from the instant of the stop on (`StoppedInTime`). For `OneAct` a call
has one name: `Rename` maps to `Appear`, a refusal, the end of the rollback and `Finalize` to `Answer`, `Kill`
to `Die`, and everything else to a stutter; a loose set is outside of the promise.

**Command.** `CommandInv` has two halves. `WriterInv` is about the wrapper alone, whoever calls it. `Staging` is its
core: while no failure has spoiled the writer, the staging is the opening of the document, its header and the rows of the
acknowledged batches as the format lays them out (`Body`: GeoJSON puts a separator before all rows but the first), or nothing yet
for xls and dxf, which keep the batches; `started` and `shape_type` agree with that, so every backend's `finish` makes `DocumentOf`
of them. A write that fails half way leaves a staging nothing is said of, and sets `failed`, after which
no document can be published. `Charged` matches what is leased and committed with the rows in hand and the rows
acknowledged, layer by layer, hence `TotalsMatch` with the declared totals. The other half follows the command.
`Held` says which phase can hold a reader, a writer, a slot or a destination; an error of the command line is never after `finish`,
because only the runtime looks at the stop once more. Of a streamed delivery it says that the private directory is there from
its creation to its removal, that nothing is in the destination without it, and that the one answer given while it is there is
`unremoved`. `Progress` says that what is acknowledged is the layers already read and the
batches of this one but for the batch in hand; a batch is given up only after its write
returned `ok`, and the reader ends a layer only after its last batch. The lemmas it needs are on `FlattenSeq`, whose
recursion is under a `CHOOSE` in the community module: what it makes of a concatenation and of one more batch
(`FlattenConcat`), and that a layer's rows are counted place by place.

**SDK call.** `RunInv` has two halves. `Flow` follows the readers: what was collected is counted, an end of file was met only when
nobody held the other end, and an answer is made from a pipe only when its reader has recorded the end in time.
`Ends` follows the pipes and the child: a pipe that the caller closes has no reader inside it, because
it was claimed first or its reader has left (`NobodyInside`); and of a child that still runs it counts, at each place, how many interruptions
it took not to have tried to kill it (`KillIsTried`), and that without an interruption it is told as left alive
(`AliveIsTold`). These counts are what `ChildIsNotForgotten` promises at the end.

**Native command.** `AnswerIsDeserved` needs that what `esegui` noted (`scaduto`, `raised`) has happened,
that nothing else cancels the token, and that an outcome received late has met the look at the
timeout unless a signal was seen before or in the same look.

**Sums.** `Total(f, n)` is a recursive function on the naturals. The induction
theorems of the library take an operator as a parameter, which the installed
provers cannot instantiate, so `Totals` derives what it needs (definedness of
the recursion, change at one point, monotonicity) from a least-number lemma over a
*set* of naturals.

**Only model-checked.** All liveness (fairness and `ENABLED` are beyond the
prover), and two properties of the run of the drivers. `GeometryIsKept` is about six codecs that are recursive operators
over the cells of a payload and the tree of a text, and what they compute is an induction over data. So is `PlacemarksAreReadWhole`,
which compares a stream of KML events with the tree it makes.

## 5 Findings

Each is shown by a run that expects a violation; `PROJECT.json` has the quoted lines.

- **A cell below the declared last row is dropped** (`xlsx_frame`, `driver-xls/src/lib.rs:1144`).
  `for_each_dense_row` ends with the last row of the declared frame and never looks at
  what is left, while a cell to the left, to the right or above is refused, as the
  driver's own comment and test ask.
- **Unsigned statistics are read as signed** (`unsigned_pruning`, `driver-geoparquet/src/lib.rs:2161`).
  A row group of large values of a UINT column has a negative minimum, and a predicate such as `x > 5` skips
  it, against "over-return, never under-return".
- **A list of one number stands for a number** (`geojson_nesting`, `geometria_progressiva.rs:257`).
  `{"type":"Point","coordinates":[[1],[2]]}` is read as `POINT (1 2)`.
- **The backlink of a FoxPro table is not counted** (`foxpro_end`, `driver-shp/src/lib.rs:2420`).
  The end of the `.dbf` is looked for from the descriptors, not from the first record, so a complete Visual FoxPro
  table is refused.
- **A driver's spool outlives its reservation** (`driver_spool`, `driver-kml/src/lib.rs:644`).
  The leases are dropped when `open` ends; the comment at 571-577 says they live as long as the temporary file.
- **An error without effect beside a published destination** (`conversion_late`, `runtime.rs:783`).
  `finalizza_carico` looks at the token after `finish` has published, and answers
  `remote_effect: none`, of which `docs/RELEASE.md:1030` says that nothing is visible.
- **A success after the timeout, once a SIGINT was seen** (`native_command_late`, `plenora-io-py/src/lib.rs:116`).
  `sdk/python/README.md:141` and `:586` say that on the native backend a result received after
  the timeout, a success too, becomes an error of timeout. `esegui` looks at the timeout
  only while the token is not cancelled, and after the signals. Once a SIGINT has
  cancelled the token, in an earlier interval or in the same look, `scaduto` stays
  `false`: a command that was past its last look at the token and succeeds after the
  timeout returns a success. `AnswerIsDeserved` shows that a SIGINT is the only way to it.
  (`README.md:569` lets a command that had already ended keep its outcome against a SIGINT; it says nothing of the timeout.)

Observations without a run:

- On a platform with neither `renameat2`, `renamex_np` nor Windows' rename, the exclusive rename is
  `hard_link` followed by `remove_file` (`publish.rs:520`). When the second fails, the
  file is visible while the error keeps `remote_effect: none` (`publish.rs:420`,
  `docs/PRODUCT.md:152`). `OutcomeIsTrue` therefore asks this only where the rename is
  exclusive (`ExclusiveRename`).
- A row group that holds a box across the antimeridian beside other boxes can be
  skipped by a spatial hint (`metadati.rs:903-913`, `lib.rs:2327-2344` of geoparquet).
- `register_srs` of the GeoPackage writer (`driver-gpkg/src/lib.rs:2410`) takes an identifier of `NONE`, as `NONE:0` or `NONE:7` in
  the metadata of an Arrow field, and its plan announces the identifier as kept; `crs_for` (1648) refuses every row of `NONE`, so the copy
  cannot be read again. `docs/PRODUCT.md:410-425` says that a file that is not read again without options has announced
  `crs_id_not_preserved_absent`. The inputs of `driver_readers` have the case: without `OrganizationIsNamed` its run ends there.
- An IPC contract that is resolved without an identifier and whose PROJJSON names a local authority is
  written to GeoParquet, and the copy is refused on reading.
- `<Polygon/>`, `<LineString/>`, `<MultiGeometry/>` and `<name/>` in a placemark are
  ignored, while `<Polygon></Polygon>` is an error.
- `BatchTargetReader` keeps its inner reader, and the gate with it, after a stop, and
  `BudgetedReader` after any error: the gate stays shut until the reader is dropped.

## 6 Assumptions and limits

Of the environment:

- Memory is sequentially consistent. The code uses acquire/release on single
  counters and mutexes for everything else, and no property relates two counters
  by their order alone, so this costs nothing here.
- Other processes leave alone the files this process has published; they may
  create and remove everything else. A source may be replaced, never edited in place; a torn pair of `.shp` and
  `.dbf` with the same number of records cannot be seen by the driver, and a replaced `.dbf` keeps its layout.
- File systems are POSIX-like: a rename is atomic to an observer, and what survives a
  power loss is what was synchronised.
- The clock's expiry of a deadline wakes no future; the code that owns the
  deadline cancels the token (`runtime.rs`). `NoLostWakeup` speaks of cancelled tokens only.
- `cancel()` may return before descendants are reached when another thread is already
  walking the same subtree, and a dropped intermediate token cuts
  its subtree off. Both are what the code does; the properties do not claim more.
- `sdk/python/README.md:117` excludes from the SDK's guarantees interruptions of
  the interpreter's own mechanisms. `SdkRunner` makes use of it in one place: no
  interruption strikes while `Thread.start` waits for its thread to begin. Such a thread
  has no `ident` yet, `reclama` takes it for one that never started, and if it begins to read between
  `reclama` and `close()` the latter waits for as long as a grandchild holds the pipe.

Of the data:

- Budgets are small numbers: `u64` overflow is guarded in the code by checked and
  saturating arithmetic, whose only reachable effect here is the clamp of `give_back`, which is modelled.
- *Geometry*: a cell stands for a byte order, a 32-bit word or an ordinate, a token for the bytes of a text. Infinity, the byte order itself
  and serde's recursion limit are left out. A mixture of XYZ and XYZM rows in one shapefile is not
  modelled, and an XYZM geometry whose measures are all no-data comes back as XYZ, as the format
  decides. Depth in GeoJSON counts lists, so a deep collection can be written and not read.
- *CRS*: identifiers are pairs; definitions over 1 MiB, the BOM, GDAL's CRS of a file geodatabase and the historic
  `crs` member of GeoJSON are left out; kml behaves as geojson and xls as csv.
- *Attributes*: numbers and texts by class; encodings by what they can hold. In shp and xls every type
  may become text and the plan says so; a date's text is not announced as a coercion but keeps its rendering.
- *Sheets*: dates in half days; the format code of a cell is the set of its letters; a repeated reference keeps
  the last value. *KML*: names, entities and encodings of XML are left out; `MaxXmlDepth` 7 stands for
  `MAX_XML_DEPTH`. *Shapefile structure*: the sizes of headers and records are reduced and boxes left out; a
  reservation larger than the file counts as a panic. *Pruning*: boxes on one axis.

Not modelled, and why:

- The bytes of CSV, ZIP, XML, Arrow, Parquet, SQLite and GDAL: third-party libraries, modelled
  by what the drivers rely on.
- The attributes of KML, DXF and FileGDB, the entities of DXF, GeoArrow metadata, primary keys and
  constraints of GeoPackage, the limits on the number of layers and geometries in `validate_write`: sequential mappings with no other
  form to disagree with, or of a library.
- `io.inspect` and the discovery commands (they change nothing), request decoding, the envelope, the CLI and the capability
  tables (formatting and tables), the merging of reports, the digest of the source; a panic after the publication.
- The SDK's client, models and errors (data), benchmarks, fuzzing and vendored code.
- `StagedFile::publish` adds to `publish_file` only that the staging is consumed once, which the type system says.

## 7 Plan

Done: everything in section 2. What is left, the most useful first:

1. The attributes of KML and DXF through `AttributePath`, and the CRS of a file geodatabase.
2. `validate_write` for several layers and for the geometry columns of one layer.
