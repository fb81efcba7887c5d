----------------------------- MODULE Conversion -----------------------------
(***************************************************************************)
(* One command from its invocation to its answer: cmd_convert, cmd_write   *)
(* and cmd_read of plenora-io-tools, run by the command line (main.rs,     *)
(* signals included) or by the runtime binding (runtime.rs), and a writer  *)
(* driven by a library caller that goes on after any answer.               *)
(*                                                                         *)
(* A source is a sequence of layers, a layer the batches its reader gives. *)
(* The reader is the one AtomicRead promises: the total of the layer is    *)
(* known with the first batch, every call may fail, and the end is         *)
(* answered only after the last batch.                                     *)
(***************************************************************************)
EXTENDS LimitedWriter

CONSTANTS
  Hosts,     (* among "cli", "runtime" and "library"                       *)
  Sources,   (* the sources tried                                          *)
  Batches,   (* the batches a library caller writes                        *)
  MaxWrites  (* bound: how many batches a library caller gets acknowledged *)

ASSUME ConversionAssumption ==
  /\ Hosts \subseteq {"cli", "runtime", "library"}
  /\ Sources \subseteq Seq(Seq(Seq(RowKinds))) /\ Batches \subseteq Seq(RowKinds)
  /\ {MaxRows, MaxSlots, MaxWrites} \subseteq Nat

VARIABLES
  host,      (* who runs the command                                       *)
  command,   (* "convert", "write", "deliver", "count" or "describe"       *)
  source,    (* the layers of the source                                   *)
  phase,     (* where the command is                                       *)
  selected,  (* the source layers to write, in the order of the plan       *)
  reader,    (* the LayerReader: its place in selected, how many batches   *)
             (* it gave, and whether it is open                            *)
  current,   (* the batch the loop holds, << >> or <<rows>>                *)
  private,   (* the runtime's private directory exists                     *)
  payload,   (* the stream the runtime read back from it, {} if none       *)
  signals,   (* signals the command line received                          *)
  reply      (* "none", "success", "error", "unremoved" (the error of the  *)
             (* removal of the private directory) or "killed"              *)

commandVars == <<host, command, source, selected>>
hostVars    == <<private, payload, signals, reply>>
conversionVars == <<limitedVars, commandVars, phase, reader, current, hostVars>>

NoReader == [place |-> 0, given |-> 0, open |-> FALSE]
Running  == phase \notin {"answered", "killed", "library"}

LayerOf(i) == source[selected[i]]
TotalOf(layer) == Len(FlattenSeq(layer))

\* Every `?` of a command leaves it here; the stack is not unwound yet.
Fail == phase' = "failing"

Proceed(step) == phase' = step

Answer(value) == Proceed("answered") /\ reply' = value

\* io.read of the runtime binding: it delivers in a private directory, and
\* answers with the bytes.
Streamed == host = "runtime" /\ command = "deliver"

-----------------------------------------------------------------------------
(* Source and plan *)

\* consegna_in_flusso: the private directory is created before anything else.
PrepareDelivery ==
  /\ phase = "prepare"
  /\ \/ private' = TRUE /\ Proceed("start")
     \/ Fail /\ UNCHANGED private
  /\ UNCHANGED <<limitedVars, commandVars, reader, current, payload, signals, reply>>

OpenSource ==
  /\ phase = "start"
  /\ \/ ~ halted /\ Proceed(IF command = "describe" THEN "documents" ELSE "select")
     \/ Fail
  /\ UNCHANGED <<limitedVars, commandVars, reader, current, hostVars>>

LayerChoices ==
  LET all == [i \in 1 .. Len(source) |-> i]
  IN  {<<i>> : i \in 1 .. Len(source)}
        \cup (IF command \in {"deliver", "count"} THEN {} ELSE {all})

\* NO_LAYER, LAYER_NOT_FOUND, SINGLE_LAYER_SINK, a refused layer, the plan.
SelectLayers ==
  /\ phase = "select"
  /\ \/ \E choice \in LayerChoices :
          /\ command = "convert" => Len(choice) <= 1 \/ format \in MultiLayer
          /\ selected' = choice
          /\ Proceed(IF command = "count" THEN "reader" ELSE "create")
     \/ Fail /\ UNCHANGED selected
  /\ UNCHANGED <<limitedVars, host, command, source, reader, current, hostVars>>

CreateSink ==
  /\ phase = "create"
  /\ Create(Len(selected))
  /\ IF result' = "ok" THEN Proceed("reader") ELSE Fail
  /\ UNCHANGED <<commandVars, reader, current, hostVars>>

-----------------------------------------------------------------------------
(* trasferisci_layer *)

\* io.read builds a second pipeline for its sink, with a pool of its own.
SharedPool == command \in {"convert", "write"}

\* Mutant: the lease of the reader waits for a slot instead of refusing.
OpenReaderWaits ==
  /\ phase = "reader"
  /\ (SharedPool /\ ~ halted) => in_use < slots
  /\ \/ /\ ~ halted
        /\ reader' = [place |-> reader.place + 1, given |-> 0, open |-> TRUE]
        /\ in_use' = in_use + 1
        /\ Proceed("first")
     \/ Fail /\ UNCHANGED <<reader, in_use>>
  /\ UNCHANGED <<writerVars, backendVars, halted, result, commandVars, current, hostVars>>

\* lease_concurrency refuses when the pool has no slot left.
OpenReader ==
  /\ phase = "reader"
  /\ \/ /\ ~ halted
        /\ SharedPool => in_use < slots
        /\ reader' = [place |-> reader.place + 1, given |-> 0, open |-> TRUE]
        /\ in_use' = in_use + 1
        /\ Proceed("first")
     \/ Fail /\ UNCHANGED <<reader, in_use>>
  /\ UNCHANGED <<writerVars, backendVars, halted, result, commandVars, current, hostVars>>

\* Mutant: a reader that fails after its first batch is taken for its end.
NextBatchEndsEarly ==
  /\ phase \in {"first", "next"}
  /\ LET batches == LayerOf(reader.place) IN
       \/ /\ ~ halted
          /\ reader.given < Len(batches)
          /\ current' = <<batches[reader.given + 1]>>
          /\ reader' = [reader EXCEPT !.given = @ + 1]
          /\ Proceed(IF command = "count" THEN "next" ELSE IF phase = "first" THEN "declare" ELSE "write")
       \/ /\ current' = << >>
          /\ Proceed(IF phase = "first" /\ command # "count" THEN "declare" ELSE "reader_end")
          /\ UNCHANGED reader
       \/ Fail /\ UNCHANGED <<reader, current>>
  /\ UNCHANGED <<limitedVars, commandVars, hostVars>>

\* The batch before was dropped: one batch is alive at a time.  Without a
\* destination the loop only counts, and may leave at its limit.
NextBatch ==
  /\ phase \in {"first", "next"}
  /\ LET batches == LayerOf(reader.place) IN
       \/ /\ ~ halted
          /\ reader.given < Len(batches)
          /\ current' = <<batches[reader.given + 1]>>
          /\ reader' = [reader EXCEPT !.given = @ + 1]
          /\ \/ command = "count" /\ phase' \in {"next", "reader_end"}
             \/ command # "count" /\ Proceed(IF phase = "first" THEN "declare" ELSE "write")
       \/ /\ ~ halted
          /\ reader.given = Len(batches)
          /\ current' = << >>
          /\ Proceed(IF phase = "first" /\ command # "count" THEN "declare" ELSE "reader_end")
          /\ UNCHANGED reader
       \/ Fail /\ UNCHANGED <<reader, current>>
  /\ UNCHANGED <<limitedVars, commandVars, hostVars>>

Declare ==
  /\ phase = "declare"
  /\ DeclareTotal(reader.place, TotalOf(LayerOf(reader.place)))
  /\ IF result' # "ok" THEN Fail
     ELSE Proceed(IF current = << >> THEN "reader_end" ELSE "write")
  /\ UNCHANGED <<commandVars, reader, current, hostVars>>

StartWrite ==
  /\ phase = "write"
  /\ BeginWrite(reader.place, current[1])
  /\ IF call' = "write" THEN Proceed("writing") ELSE Fail
  /\ UNCHANGED <<commandVars, reader, current, hostVars>>

CompleteWrite ==
  /\ phase = "writing"
  /\ EndWrite
  /\ IF result' = "ok" THEN Proceed("next") /\ current' = << >>
                       ELSE Fail /\ UNCHANGED current
  /\ UNCHANGED <<commandVars, reader, hostVars>>

\* The reader of the layer is dropped before the next one is opened.
EndReader ==
  /\ phase = "reader_end"
  /\ in_use' = in_use - 1
  /\ reader' = [reader EXCEPT !.open = FALSE]
  /\ current' = << >>
  /\ IF command = "count" THEN Proceed("documents")
     ELSE Proceed(IF reader.place < Len(selected) THEN "reader" ELSE "finish")
  /\ UNCHANGED <<writerVars, backendVars, halted, result, commandVars, hostVars>>

StartFinish ==
  /\ phase = "finish"
  /\ BeginFinish
  /\ IF call' = "finish" THEN Proceed("finishing") ELSE Fail
  /\ UNCHANGED <<commandVars, reader, current, hostVars>>

CompleteFinish ==
  /\ phase = "finishing"
  /\ EndFinish
  /\ IF result' = "ok" THEN Proceed("documents") ELSE Fail
  /\ UNCHANGED <<commandVars, reader, current, hostVars>>

-----------------------------------------------------------------------------
(* The answer *)

\* fidelity_doc, loss_doc and diagnostica_entro_il_totale: the five sections
\* are cut to 12 288 bytes each, so their total never passes 65 536.
WriteDocuments ==
  /\ phase = "documents"
  /\ Proceed(IF host = "cli" THEN "succeeding" ELSE IF private THEN "stream" ELSE "control")
  /\ UNCHANGED <<limitedVars, commandVars, reader, current, hostVars>>

\* leggi_flusso: the private stream goes to memory, the stop is looked at
\* around every read.
ReadStream ==
  /\ phase = "stream"
  /\ \/ ~ halted /\ payload' = destination /\ Proceed("closing")
     \/ Fail /\ UNCHANGED payload
  /\ UNCHANGED <<limitedVars, commandVars, reader, current, private, signals, reply>>

\* Mutant: the arms of the match are swapped, and the error of an operation
\* that failed hides the one of the removal.
CloseDeliveryKeepsError ==
  /\ phase = "closing"
  /\ \/ /\ private' = FALSE /\ destination' = {}
        /\ IF payload # {} THEN Proceed("control") /\ UNCHANGED reply ELSE Answer("error")
     \/ /\ destination' \in {destination, {}}
        /\ Answer(IF payload = {} THEN "error" ELSE "unremoved")
        /\ UNCHANGED private
  /\ UNCHANGED <<writer, layers, call, batch, limitVars, acknowledged, backendVars, halted,
                 in_use, result, commandVars, reader, current, payload, signals>>

\* completa_flusso: the private directory is removed whether the stream was
\* read or the operation failed.  A removal that fails is the answer, whatever
\* the operation answered, and may leave the file behind.
CloseDelivery ==
  /\ phase = "closing"
  /\ \/ /\ private' = FALSE /\ destination' = {}
        /\ IF payload # {} THEN Proceed("control") /\ UNCHANGED reply ELSE Answer("error")
     \/ /\ destination' \in {destination, {}}
        /\ Answer("unremoved")
        /\ UNCHANGED private
  /\ UNCHANGED <<writer, layers, call, batch, limitVars, acknowledged, backendVars, halted,
                 in_use, result, commandVars, reader, current, payload, signals>>

\* finalizza_carico: verifica_controlli once more before the payload goes out.
Control ==
  /\ phase = "control"
  /\ IF halted THEN Fail ELSE Proceed("succeeding")
  /\ UNCHANGED <<limitedVars, commandVars, reader, current, hostVars>>

Succeed ==
  /\ phase = "succeeding"
  /\ Answer("success")
  /\ UNCHANGED <<limitedVars, commandVars, reader, current, private, payload, signals>>

Slot(held) == IF held THEN 1 ELSE 0

DropReaderAndWriter ==
  /\ in_use' = in_use - Slot(reader.open) - Slot(writer = "open")
  /\ reader' = [reader EXCEPT !.open = FALSE]

\* Reader and writer are dropped, the staging with the writer; the error says
\* remote_effect none whatever the step was.  A private directory is removed
\* before the error goes out.
Unwind ==
  /\ phase = "failing"
  /\ IF private THEN Proceed("closing") /\ UNCHANGED reply ELSE Answer("error")
  /\ DropReaderAndWriter
  /\ current' = << >>
  /\ writer' = IF writer = "open" THEN "closed" ELSE writer
  /\ call' = "idle" /\ reserved' = 0
  /\ UNCHANGED <<layers, batch, rows, layer_rows, input_totals, failed, committed, slots,
                 acknowledged, destination, backendVars, halted, result, commandVars, private,
                 payload, signals>>

\* A parser or an encoder panics; catch_unwind of main.rs answers for it.
Panic ==
  /\ host = "cli"
  /\ phase \in {"start", "first", "next", "writing"}
  /\ Fail
  /\ UNCHANGED <<limitedVars, commandVars, reader, current, hostVars>>

-----------------------------------------------------------------------------
(* The world around the command *)

\* The first signal cancels, the second leaves at once: no unwinding, and
\* no answer on stdout.
Signal ==
  /\ host = "cli" /\ Running
  /\ signals < 2
  /\ signals' = signals + 1
  /\ IF signals = 0 THEN halted' = TRUE /\ UNCHANGED <<phase, reply>>
                    ELSE phase' = "killed" /\ reply' = "killed" /\ UNCHANGED halted
  /\ UNCHANGED <<writerVars, backendVars, in_use, result, commandVars, reader, current, private, payload>>

\* The deadline passes, or the caller of the runtime cancels.
Halt ==
  /\ Running \/ phase = "library"
  /\ ~ halted
  /\ halted' = TRUE
  /\ UNCHANGED <<writerVars, backendVars, in_use, result, commandVars, phase, reader, current,
                 hostVars>>

\* A library caller: any call the type allows, in any order.
LibraryCall ==
  /\ phase = "library"
  /\ \/ \E count \in 1 .. 2 : Create(count)
     \/ \E layer \in 1 .. 2, total \in 0 .. 2 : DeclareTotal(layer, total)
     \/ /\ Len(acknowledged) < MaxWrites
        /\ \E layer \in 1 .. 2, content \in Batches : BeginWrite(layer, content)
     \/ EndWrite \/ BeginFinish \/ EndFinish \/ Drop
  /\ UNCHANGED <<commandVars, phase, reader, current, hostVars>>

-----------------------------------------------------------------------------
CommandInit ==
  /\ LimitedInit
  /\ host \in Hosts
  /\ command \in (IF host = "library" THEN {"convert"}
                  ELSE {"convert", "write"} \cup
                       (IF format # "ipc" THEN {}
                        ELSE {"deliver", "describe"}
                               \cup (IF host = "cli" THEN {"count"} ELSE {})))
  /\ source \in Sources
  /\ phase = IF host = "library" THEN "library" ELSE IF Streamed THEN "prepare" ELSE "start"
  /\ selected = << >> /\ reader = NoReader /\ current = << >>
  /\ private = FALSE /\ payload = {} /\ signals = 0 /\ reply = "none"

CommandStep ==
  \/ PrepareDelivery \/ OpenSource \/ SelectLayers \/ CreateSink
  \/ OpenReader \/ NextBatch \/ Declare \/ StartWrite \/ CompleteWrite \/ EndReader
  \/ StartFinish \/ CompleteFinish
  \/ WriteDocuments \/ ReadStream \/ CloseDelivery \/ Control \/ Succeed \/ Unwind

Ended == ~ Running /\ UNCHANGED conversionVars

CommandNext == CommandStep \/ Panic \/ Signal \/ Halt \/ LibraryCall \/ Ended

CommandSpec == CommandInit /\ [][CommandNext]_conversionVars

\* The command's own thread runs; nothing makes a signal or a deadline come.
FairCommandSpec == CommandSpec /\ WF_conversionVars(CommandStep)

-----------------------------------------------------------------------------
(* Properties *)

Whole ==
  LET ofLayer(i) ==
        [n \in 1 .. Len(LayerOf(i)) |-> RowParts(i, LayerOf(i)[n])]
  IN  DocumentOf(FlattenSeq([i \in 1 .. Len(selected) |-> ofLayer(i)]))

\* A command that answers success has delivered every batch of every layer it
\* selected, in order, in one whole document, whatever stopped in between.
SuccessIsComplete ==
  reply = "success" /\ command \in {"convert", "write", "deliver"} =>
    destination \cup payload = {Whole}

\* docs/RELEASE.md 1030: an envelope with remote_effect none left no visible
\* destination.  The runtime looks at the stop once more after the publication.
\* The file of the private directory is no destination anybody asked for: its
\* fate is NothingIsLeft's, and the answer "unremoved" is not meant here.
NoneLeavesNothing == reply = "error" => destination = {}

\* After the answer the operation holds no concurrency slot, no reader and no
\* staging.  A private directory, or its file, is left only behind the error of
\* the removal itself: a success or the operation's own error never hides one.
\* And an error of the command line, remote_effect none, left no destination.
NothingIsLeft ==
  /\ phase = "answered" => in_use = 0 /\ ~ reader.open /\ writer # "open"
  /\ Streamed /\ reply \in {"success", "error"} => ~ private /\ destination = {}
  /\ reply = "error" /\ host = "cli" => destination = {}

\* The command never waits for a slot it holds itself, nor for anyone else:
\* it answers, or a second signal ended it.
CommandAnswers == <>(phase \in {"answered", "killed", "library"})

=============================================================================
