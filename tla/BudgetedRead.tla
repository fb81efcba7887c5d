---------------------------- MODULE BudgetedRead ----------------------------
(***************************************************************************)
(* The operation-atomic reader: BudgetedReader of driver/reader_adapters.rs *)
(* with the StagedSpool of driver/spool.rs it fills and replays.           *)
(*                                                                         *)
(* The first next_batch drains the whole source: each turn leases memory   *)
(* and rows, asks the inner reader for a batch, checks it, shrinks the     *)
(* lease to the batch and hands both to the spool.  The spool keeps the    *)
(* batches in memory up to a threshold, then moves them to an unnamed file *)
(* whose every physical write is covered by a reservation of spill quota.  *)
(* Later calls replay the spool.                                           *)
(*                                                                         *)
(* Other operations of the pipeline or the pool take and return memory and *)
(* spill quota at any moment, and the pipeline can be stopped at any       *)
(* moment.  "rows" stands for the three cumulative counters (rows, output  *)
(* bytes, geometry components), which are leased and committed alike.      *)
(***************************************************************************)
EXTENDS Integers, Sequences, Totals

CONSTANTS
  Sources,         (* the sources tried: sequences of batches              *)
  Limits,          (* the scopes tried: AcceptedRows(n), or NoLimit        *)
  NoLimit,
  MaxRows,         (* the rows left to this operation                      *)
  MemoryCapacity,  (* effective_memory_capacity                            *)
  SpillCapacity,   (* effective spill capacity                             *)
  BatchCap,        (* target_bytes + max_wkb_cell_bytes + Overhead         *)
  Overhead,        (* PER_BATCH_OVERHEAD_BYTES                             *)
  Chunk,           (* SPILL_RESERVATION_CHUNK                              *)
  ForeignMemory,   (* bound: the memory other operations may hold          *)
  ForeignSpill     (* bound: the spill quota other operations may hold     *)

\* A batch: its rows, its bytes in memory, and whether it fits the contract.
Batches == [rows : Nat, bytes : Nat, valid : BOOLEAN]

ASSUME BudgetedReadAssumption ==
  /\ Sources \subseteq Seq(Batches)
  /\ NoLimit \notin Nat /\ Limits \subseteq Nat \cup {NoLimit}
  /\ MaxRows \in Nat /\ MemoryCapacity \in Nat /\ SpillCapacity \in Nat
  /\ BatchCap \in Nat /\ Overhead \in Nat /\ Chunk \in Nat
  /\ ForeignMemory \subseteq Nat /\ ForeignSpill \subseteq Nat

VARIABLES
  inner,     (* the batches the inner reader has left                      *)
  scan,      (* the batches this operation covers; never changes           *)
  limit,     (* ReadScope; never changes                                   *)
  stopped,   (* the token is cancelled or the deadline has passed          *)
  foreign,   (* memory and spill quota held by other operations            *)
  at,        (* where the thread is in next_batch                          *)
  after,     (* what follows once the spool has released its storage       *)
  wanted,    (* available_memory, between the reading and the lease        *)
  memory_lease, (* its bytes                                               *)
  batch,     (* the batch of this turn                                     *)
  tainted,   (* the ReadViolationAccumulator is not empty                  *)
  rows,      (* rows_scanned                                               *)
  drained,
  terminal_error,
  stage,     (* Stage of the spool; "none" before there is a spool         *)
  queue,     (* the batches in memory, also while they are being migrated  *)
  disk,      (* the batches written, to the BufWriter or to the file       *)
  file,      (* the spool file is open                                     *)
  buffered,  (* bytes in the BufWriter                                     *)
  written,   (* SpillGuard.written: bytes in the file                      *)
  reserved,  (* SpillGuard.reserved                                        *)
  delivered, (* the batches the caller received                            *)
  answer     (* the last answer of next_batch                              *)

turnVars   == <<wanted, memory_lease, batch>>
scanVars   == <<inner, tainted, rows>>
fileVars   == <<disk, file, buffered, written, reserved>>
spoolVars  == <<stage, queue, fileVars>>
callerVars == <<drained, delivered, answer>>
envVars    == <<scan, limit, stopped, foreign>>
readVars == <<at, after, terminal_error, turnVars, scanVars, spoolVars, callerVars, envVars>>

ReadErrors  == {"source", "contract", "limit", "rejected", "cancelled", "io"}
NoBatch == [rows |-> 0, bytes |-> 0, valid |-> TRUE]

Least(a, b)    == IF a < b THEN a ELSE b
Greatest(a, b) == IF a < b THEN b ELSE a

Accounted(b) == b.bytes + Overhead

BytesOf(batches) ==
  Total([i \in 1 .. Len(batches) |-> Accounted(batches[i])], Len(batches))

RowsOf(batches) ==
  Total([i \in 1 .. Len(batches) |-> batches[i].rows], Len(batches))

FreeMemory == MemoryCapacity - foreign.memory - memory_lease - BytesOf(queue)
FreeSpill  == SpillCapacity - foreign.spill - reserved

\* adaptive_memory_threshold
Threshold == Greatest(MemoryCapacity \div 2, 1)

-----------------------------------------------------------------------------
(* Leaving a call *)

\* Mutant: the error is returned to the caller and not kept.
FailForgetful(error) ==
  /\ at' = "closing"
  /\ after' = error
  /\ UNCHANGED terminal_error

\* An error ends the call: it is kept, and the spool is dropped.
Fail(error) ==
  /\ at' = "closing"
  /\ after' = error
  /\ terminal_error' = error

GoTo(place) ==
  /\ at' = place
  /\ UNCHANGED <<after, terminal_error>>

\* Mutant: the guard of a Stage is dropped before the file.
CloseFileLast ==
  /\ at = "closing"
  /\ at' = "returning"
  /\ reserved' = 0
  /\ UNCHANGED <<after, terminal_error, turnVars, scanVars, callerVars, envVars>>
  /\ UNCHANGED <<stage, queue, disk, file, buffered, written>>

\* Dropping a Stage closes the writer or the reader, and the file with it ...
CloseFile ==
  /\ at = "closing"
  /\ at' = "returning"
  /\ file' = FALSE
  /\ buffered' = 0
  /\ written' = 0
  /\ disk' = << >>
  /\ UNCHANGED <<after, terminal_error, turnVars, scanVars, callerVars, envVars>>
  /\ UNCHANGED <<stage, queue, reserved>>

\* ... and only then the guard, which returns the spill quota.  The batches in
\* memory go with their leases.
ReturnQuota ==
  /\ at = "returning"
  /\ reserved' = 0
  /\ queue' = << >>
  /\ stage' = IF after \in ReadErrors THEN "none" ELSE "drained"
  /\ memory_lease' = 0
  /\ batch' = NoBatch
  /\ after' = "none"
  /\ IF after = "turn" THEN at' = "turned" /\ UNCHANGED answer
     ELSE at' = "idle" /\ answer' = after
  /\ UNCHANGED <<terminal_error, wanted, scanVars, drained, delivered, envVars>>
  /\ UNCHANGED <<disk, file, buffered, written>>

-----------------------------------------------------------------------------
(* BudgetedReader::drain_operation *)

\* Mutant: with no memory free the loop waits for some.
SizeWaiting ==
  /\ at = "loop"
  /\ IF stopped THEN Fail("cancelled") /\ UNCHANGED wanted
     ELSE /\ FreeMemory > 0
          /\ wanted' = Least(FreeMemory, BatchCap)
          /\ GoTo("sized")
  /\ UNCHANGED <<memory_lease, batch, scanVars, spoolVars, callerVars, envVars>>

\* The head of the loop: ensure_active, then the free memory is read.
Size ==
  /\ at = "loop"
  /\ IF stopped THEN Fail("cancelled") /\ UNCHANGED wanted
     ELSE /\ wanted' = Least(FreeMemory, BatchCap)
          /\ IF FreeMemory = 0 THEN Fail("limit") ELSE GoTo("sized")
  /\ UNCHANGED <<memory_lease, batch, scanVars, spoolVars, callerVars, envVars>>

\* lease_memory_internal of what was free: refused when another operation
\* took it meanwhile.
LeaseMemory ==
  /\ at = "sized"
  /\ wanted' = 0
  /\ IF stopped THEN Fail("cancelled") /\ UNCHANGED memory_lease
     ELSE IF wanted > FreeMemory THEN Fail("limit") /\ UNCHANGED memory_lease
     ELSE memory_lease' = wanted /\ GoTo("leased")
  /\ UNCHANGED <<batch, scanVars, spoolVars, callerVars, envVars>>

\* The end of the scan: the error of the violations found, or seal_spool.
EndScan ==
  IF tainted THEN Fail("rejected")
  ELSE GoTo(IF stage = "none" THEN "reading" ELSE "sealing")

\* The inner reader fails, for a reason of its own or because it was stopped.
SourceFails ==
  /\ at = "leased"
  /\ Fail("source")
  /\ UNCHANGED <<turnVars, scanVars, spoolVars, callerVars, envVars>>

SourceEnds ==
  /\ at = "leased"
  /\ inner = << >>
  /\ memory_lease' = 0
  /\ EndScan
  /\ UNCHANGED <<wanted, batch, scanVars, spoolVars, callerVars, envVars>>

\* A batch arrives.  With the row quota used up it was only a probe for the
\* end; a batch over a lease is refused; otherwise the counters are committed,
\* the violations recorded and the memory lease shrunk to the batch.
CheckBatch ==
  LET b == Head(inner) IN
  /\ at = "leased"
  /\ inner # << >>
  /\ inner' = Tail(inner)
  /\ rows' = rows + b.rows
  /\ tainted' = (tainted \/ ~ b.valid)
  /\ IF rows = MaxRows \/ b.rows > MaxRows - rows \/ Accounted(b) > memory_lease
     THEN Fail("limit") /\ UNCHANGED <<memory_lease, batch>>
     ELSE /\ memory_lease' = Accounted(b)
          /\ batch' = b
          /\ GoTo(IF tainted' THEN "discarding" ELSE "pushing")
  /\ UNCHANGED <<wanted, spoolVars, callerVars, envVars>>

\* After a violation no prefix can be accepted any more: the scan goes on to
\* count, with the batch dropped and the spool cleared.
Discard ==
  /\ at = "discarding"
  /\ IF stage = "none"
     THEN memory_lease' = 0 /\ batch' = NoBatch /\ GoTo("turned")
     ELSE /\ at' = "closing"
          /\ after' = "turn"
          /\ UNCHANGED <<memory_lease, batch, terminal_error>>
  /\ UNCHANGED <<wanted, scanVars, spoolVars, callerVars, envVars>>

\* Mutant: the scan stops only past the limit.
LimitReachedLate == limit # NoLimit /\ rows > limit

LimitReached == limit # NoLimit /\ rows >= limit

EndTurn ==
  /\ at = "turned"
  /\ IF LimitReached THEN EndScan ELSE GoTo("loop")
  /\ UNCHANGED <<turnVars, scanVars, spoolVars, callerVars, envVars>>

-----------------------------------------------------------------------------
(* StagedSpool *)

InMemory == stage \in {"none", "memory"}

OverThreshold == BytesOf(queue) + memory_lease > Threshold

\* push while the batches fit in memory: the lease moves into the queue.
PushMemory ==
  /\ at = "pushing"
  /\ InMemory
  /\ ~ OverThreshold
  /\ stage' = "memory"
  /\ queue' = Append(queue, batch)
  /\ memory_lease' = 0
  /\ batch' = NoBatch
  /\ GoTo("turned")
  /\ UNCHANGED <<wanted, scanVars, fileVars, callerVars, envVars>>

\* push of a batch whose schema is not the spool's.
PushRefused ==
  /\ at = "pushing"
  /\ stage # "none"
  /\ Fail("contract")
  /\ UNCHANGED <<turnVars, scanVars, spoolVars, callerVars, envVars>>

\* migrate_to_disk leaves the spool Drained until every batch is written: an
\* error on the way, from the creation of the file on, drops all of them.
StartMigration ==
  /\ at = "pushing"
  /\ InMemory
  /\ OverThreshold
  /\ stage' = "drained"
  /\ \/ file' = TRUE /\ GoTo("migrating")
     \/ Fail("io") /\ UNCHANGED file
  /\ UNCHANGED <<turnVars, scanVars, queue, disk, buffered, written, reserved>>
  /\ UNCHANGED <<callerVars, envVars>>

PushDisk ==
  /\ at = "pushing"
  /\ stage = "writing"
  /\ GoTo("writing")
  /\ UNCHANGED <<turnVars, scanVars, spoolVars, callerVars, envVars>>

NoQuota == -1

\* SpillGuard::reserve_for: what is reserved once n more bytes are covered. A
\* whole chunk is tried first, then exactly what is missing.
Reservation(n) ==
  LET missing == written + n - reserved
      chunk   == Greatest(missing, Chunk)
  IN  IF missing <= 0 THEN reserved
      ELSE IF stopped THEN NoQuota
      ELSE IF chunk <= FreeSpill THEN reserved + chunk
      ELSE IF missing <= FreeSpill THEN reserved + missing
      ELSE NoQuota

\* n bytes go through the GuardedWriter to the file, in one or more writes.
Physical(n) ==
  /\ Reservation(n) # NoQuota
  /\ reserved' = Reservation(n)
  /\ written' = written + n

\* StreamWriter::write of batch b: the BufWriter keeps it, or writes out what
\* it held before, or everything.
Write(b) ==
  \E n \in {0, buffered, buffered + b.bytes} :
    /\ Physical(n)
    /\ buffered' = buffered + b.bytes - n
    /\ disk' = Append(disk, b)

Outgoing == IF at = "migrating" THEN Head(queue) ELSE batch

\* A write is refused for quota, or the file system fails.
WriteFails ==
  /\ at \in {"migrating", "writing", "sealing"}
  /\ at = "migrating" => queue # << >>
  /\ at = "sealing" => stage = "writing"
  /\ \/ Fail("io")
     \/ /\ \E n \in {buffered, buffered + Outgoing.bytes} : Reservation(n) = NoQuota
        /\ Fail("limit")
  /\ UNCHANGED <<turnVars, scanVars, spoolVars, callerVars, envVars>>

\* One batch of the queue: the token is looked at before each.
Migrate ==
  /\ at = "migrating"
  /\ queue # << >>
  /\ IF stopped THEN Fail("cancelled") /\ UNCHANGED <<queue, fileVars>>
     ELSE /\ Write(Head(queue))
          /\ queue' = Tail(queue)
          /\ GoTo("migrating")
          /\ UNCHANGED file
  /\ UNCHANGED <<turnVars, scanVars, stage, callerVars, envVars>>

EndMigration ==
  /\ at = "migrating"
  /\ queue = << >>
  /\ stage' = "writing"
  /\ GoTo("writing")
  /\ UNCHANGED <<turnVars, scanVars, queue, fileVars, callerVars, envVars>>

\* push on a spool that has migrated: the lease ends with the call.
WriteBatch ==
  /\ at = "writing"
  /\ Write(batch)
  /\ memory_lease' = 0
  /\ batch' = NoBatch
  /\ GoTo("turned")
  /\ UNCHANGED <<wanted, scanVars, stage, queue, file, callerVars, envVars>>

\* seal: the flush is the last moment the quota can be exceeded.
Seal ==
  /\ at = "sealing"
  /\ IF stage = "memory" THEN UNCHANGED spoolVars
     ELSE /\ Physical(buffered)
          /\ buffered' = 0
          /\ stage' = "replaying"
          /\ UNCHANGED <<queue, disk, file>>
  /\ GoTo("reading")
  /\ UNCHANGED <<turnVars, scanVars, callerVars, envVars>>

Deliver(b) ==
  /\ delivered' = Append(delivered, b)
  /\ answer' = "batch"
  /\ UNCHANGED drained

\* The file cannot be read back, or is not what was written.
ReplayFails ==
  /\ at = "reading"
  /\ stage = "replaying"
  /\ disk # << >>
  /\ Fail("io")
  /\ UNCHANGED <<turnVars, scanVars, spoolVars, callerVars, envVars>>

\* StagedSpool::next_batch, or no spool at all.
Read ==
  /\ at = "reading"
  /\ \/ /\ stage = "none"
        /\ answer' = "eof"
        /\ GoTo("idle")
        /\ UNCHANGED <<drained, delivered, spoolVars>>
     \/ /\ stage # "none"
        /\ stopped
        /\ Fail("cancelled")
        /\ UNCHANGED <<callerVars, spoolVars>>
     \/ /\ stage = "memory" /\ ~ stopped /\ queue # << >>
        /\ Deliver(Head(queue))
        /\ queue' = Tail(queue)
        /\ GoTo("idle")
        /\ UNCHANGED <<stage, fileVars>>
     \/ /\ stage = "replaying" /\ ~ stopped /\ disk # << >>
        /\ Deliver(Head(disk))
        /\ disk' = Tail(disk)
        /\ GoTo("idle")
        /\ UNCHANGED <<stage, queue, file, buffered, written, reserved>>
     \/ /\ \/ stage = "memory" /\ queue = << >>
           \/ stage = "replaying" /\ disk = << >>
        /\ ~ stopped
        /\ at' = "closing"
        /\ after' = "eof"
        /\ UNCHANGED <<terminal_error, callerVars, spoolVars>>
     \/ /\ stage = "drained" /\ ~ stopped
        /\ answer' = "eof"
        /\ GoTo("idle")
        /\ UNCHANGED <<drained, delivered, spoolVars>>
  /\ UNCHANGED <<turnVars, scanVars, envVars>>

-----------------------------------------------------------------------------
(* BudgetedReader::next_batch *)

Call ==
  /\ at = "idle"
  /\ IF terminal_error # "none"
     THEN answer' = terminal_error /\ GoTo("idle") /\ UNCHANGED drained
     ELSE IF stopped THEN Fail("cancelled") /\ UNCHANGED <<drained, answer>>
     ELSE /\ drained' = TRUE
          /\ GoTo(IF drained \/ limit = 0 THEN "reading" ELSE "loop")
          /\ UNCHANGED answer
  /\ UNCHANGED <<turnVars, scanVars, spoolVars, delivered, envVars>>

\* accepted_total: Some only after a drain that ended without an error.
NoTotal == -1
AcceptedTotal == IF drained /\ terminal_error = "none" THEN rows ELSE NoTotal

-----------------------------------------------------------------------------
(* The rest of the process *)

StopRead ==
  /\ ~ stopped
  /\ stopped' = TRUE
  /\ UNCHANGED <<at, after, terminal_error, turnVars, scanVars, spoolVars, callerVars>>
  /\ UNCHANGED <<scan, limit, foreign>>

OthersLease(memory, spill) ==
  /\ memory - foreign.memory <= FreeMemory
  /\ spill - foreign.spill <= FreeSpill
  /\ foreign' = [memory |-> memory, spill |-> spill]
  /\ UNCHANGED <<at, after, terminal_error, turnVars, scanVars, spoolVars, callerVars>>
  /\ UNCHANGED <<scan, limit, stopped>>

\* The shortest prefix of a source that has the rows asked for.
Covered(batches, n) ==
  LET enough == {k \in 0 .. Len(batches) : RowsOf(SubSeq(batches, 1, k)) >= n}
  IN  IF n = NoLimit \/ enough = {} THEN batches
      ELSE SubSeq(batches, 1, CHOOSE k \in enough : \A j \in enough : k <= j)

ReadInit ==
  /\ inner \in Sources
  /\ limit \in Limits
  /\ scan = Covered(inner, limit)
  /\ stopped = FALSE
  /\ foreign = [memory |-> 0, spill |-> 0]
  /\ at = "idle" /\ after = "none"
  /\ wanted = 0 /\ memory_lease = 0 /\ batch = NoBatch
  /\ tainted = FALSE /\ rows = 0
  /\ drained = FALSE /\ terminal_error = "none"
  /\ stage = "none" /\ queue = << >> /\ disk = << >>
  /\ file = FALSE /\ buffered = 0 /\ written = 0 /\ reserved = 0
  /\ delivered = << >> /\ answer = "none"

\* The steps of a running call.
ReadStep ==
  \/ Size \/ LeaseMemory
  \/ SourceFails \/ SourceEnds \/ CheckBatch \/ Discard \/ EndTurn
  \/ PushMemory \/ PushRefused \/ StartMigration \/ PushDisk
  \/ Migrate \/ EndMigration \/ WriteBatch \/ WriteFails \/ Seal
  \/ Read \/ ReplayFails
  \/ CloseFile \/ ReturnQuota

ReadNext ==
  \/ ReadStep \/ Call \/ StopRead
  \/ \E memory \in ForeignMemory, spill \in ForeignSpill : OthersLease(memory, spill)

BudgetedSpec == ReadInit /\ [][ReadNext]_readVars

\* The thread inside next_batch runs; nothing makes the caller call again.
FairBudgetedSpec == BudgetedSpec /\ WF_readVars(ReadStep)

-----------------------------------------------------------------------------
(* Properties *)

\* However large the source, the batches in memory stay within the threshold,
\* and with the batch being read they stay within what others leave free.
MemoryBounded ==
  /\ BytesOf(queue) <= Threshold
  /\ FreeMemory >= 0

\* The spool file never holds bytes that are not reserved, and what is on the
\* volume never exceeds the spill quota, at any instant: quota goes back only
\* when the file is closed.
VolumeWithinQuota ==
  /\ file => written <= reserved
  /\ written + foreign.spill <= SpillCapacity

\* However large the source and whoever else takes quota: memory and volume
\* are both bounded at every instant.  And a read that has ended, well or
\* badly, holds no memory, no spill quota and no file, while its reader is
\* still there.
QuotaIsKept ==
  /\ MemoryBounded /\ VolumeWithinQuota
  /\ at = "idle" /\ answer \in {"eof"} \cup ReadErrors =>
       memory_lease = 0 /\ queue = << >> /\ reserved = 0 /\ ~ file

\* The total the caller may declare to a writer after the first answer is the
\* number of rows of the whole scan, and of the delivery when it ends.
TotalIsExact ==
  at = "idle" /\ answer \in {"batch", "eof"} =>
    /\ AcceptedTotal = RowsOf(scan)
    /\ answer = "eof" => AcceptedTotal = RowsOf(delivered)

ReadOutcome == IF answer \in {"eof"} \cup ReadErrors THEN answer ELSE "open"

Promise == INSTANCE AtomicRead WITH Errors <- ReadErrors, outcome <- ReadOutcome

\* No prefix of a source is accepted: a batch is delivered only when the whole
\* scan was verified and fits, also when the spool fails half way through a
\* migration, a seal or a replay; no failure is ever followed by EOF.
ReadSpec == Promise!Spec

\* Every call is answered: nothing waits for quota others hold.
CallIsAnswered == (at # "idle") ~> (at = "idle")

=============================================================================
