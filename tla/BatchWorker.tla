---------------------------- MODULE BatchWorker -----------------------------
(***************************************************************************)
(* The adapter between a parser that runs in a thread of its own and the   *)
(* LayerReader the pipeline pulls from: driver/batch_worker.rs.            *)
(*                                                                         *)
(* The worker pushes events on a bounded channel; the reader takes them    *)
(* off in next_batch.  The reader may be released at any moment between    *)
(* two calls and the token may be cancelled at any moment.  The parser is  *)
(* the closure a driver gives to spawn_batch_reader: it builds the batches *)
(* of the layer in order, may look whether the reader is still there, may  *)
(* fail or panic, and returns Ok(()) when a send says the reader is gone.  *)
(***************************************************************************)
EXTENDS Naturals, Sequences

CONSTANTS
  NBatches,    (* the batches of the layer are 1 .. NBatches               *)
  Capacities   (* the channel capacities tried: 0 is a rendezvous channel  *)

ASSUME BatchWorkerAssumption == NBatches \in Nat /\ Capacities \subseteq Nat

VARIABLES
  capacity,       (* channel_capacity of spawn_batch_reader                *)
  channel,        (* the events sent and not received yet                  *)
  worker,         (* where the worker thread is                            *)
  parsed,         (* how many batches the parser has built                 *)
  pending,        (* the event the worker is sending, or sent last         *)
  cancelled,      (* the token                                             *)
  reader,         (* where the caller's thread is in the reader            *)
  terminal,       (* BatchWorkerReader.terminal                            *)
  worker_error, (* BatchWorkerReader.terminal_error                      *)
  returned,       (* the batches next_batch returned                       *)
  worker_answer          (* the last answer of next_batch                         *)

channelVars == <<capacity, channel>>
workerVars  == <<worker, parsed, pending>>
readerVars  == <<reader, terminal, worker_error, returned, worker_answer>>
streamVars == <<channelVars, workerVars, cancelled, readerVars>>

-----------------------------------------------------------------------------
(* Events *)

\* The typed errors of Failed, and the reader's own abnormal_termination.
WorkerErrors == {"format", "cancelled", "panic"}
StreamErrors       == WorkerErrors \cup {"abnormal"}

Event(kind)  == [kind |-> kind, batch |-> 0]
Batch(n)     == [kind |-> "batch", batch |-> n]
NoEvent      == Event("none")

Events == {Batch(n) : n \in 1 .. NBatches}
            \cup {Event(kind) : kind \in {"heartbeat", "finished"} \cup WorkerErrors}

Released     == reader = "released"
Disconnected == worker = "gone" /\ channel = << >>

\* A rendezvous channel has room only while the receiver waits in recv.
Room == Len(channel) < capacity \/ (channel = << >> /\ reader = "receiving")

Push(event) ==
  /\ ~ Released
  /\ Room
  /\ channel' = Append(channel, event)
  /\ UNCHANGED capacity

-----------------------------------------------------------------------------
(* The parser *)

\* The closure returned: the worker is about to send the terminal event.
Conclude(kind) ==
  /\ worker' = "terminal"
  /\ pending' = Event(kind)
  /\ UNCHANGED parsed

ParseBatch(how) ==
  /\ worker = "parsing"
  /\ parsed < NBatches
  /\ parsed' = parsed + 1
  /\ pending' = Batch(parsed + 1)
  /\ worker' = how
  /\ UNCHANGED <<channelVars, cancelled, readerVars>>

ParseEnd ==
  /\ worker = "parsing"
  /\ parsed = NBatches
  /\ Conclude("finished")
  /\ UNCHANGED <<channelVars, cancelled, readerVars>>

\* The parser returns an error of its own, sees the token cancelled, or
\* panics (catch_unwind).
ParseFails(error) ==
  /\ worker = "parsing"
  /\ error = "cancelled" => cancelled
  /\ Conclude(error)
  /\ UNCHANGED <<channelVars, cancelled, readerVars>>

\* is_receiver_alive: a Heartbeat is tried, a full channel counts as alive.
ProbeReader ==
  /\ worker = "parsing"
  /\ IF Released THEN Conclude("finished") /\ UNCHANGED channelVars
     ELSE UNCHANGED workerVars /\ Push(Event("heartbeat"))
  /\ UNCHANGED <<cancelled, readerVars>>

-----------------------------------------------------------------------------
(* BatchEmitter *)

BackToParser ==
  /\ worker' = "parsing"
  /\ UNCHANGED <<parsed, pending>>

\* send: blocks until there is room or the receiver is gone.
Send ==
  /\ worker = "send"
  /\ \/ Push(pending) /\ BackToParser
     \/ Released /\ Conclude("finished") /\ UNCHANGED channelVars
  /\ UNCHANGED <<cancelled, readerVars>>

\* send_cancellable: each turn checks the token first...
CheckToken ==
  /\ worker = "send_cancellable"
  /\ IF cancelled THEN Conclude("cancelled")
     ELSE worker' = "try_send" /\ UNCHANGED <<parsed, pending>>
  /\ UNCHANGED <<channelVars, cancelled, readerVars>>

\* Mutant: a full channel is taken for a delivery and the batch is dropped.
TrySendDropsWhenFull ==
  /\ worker = "try_send"
  /\ \/ Push(pending) /\ BackToParser
     \/ Released /\ Conclude("finished") /\ UNCHANGED channelVars
     \/ ~ Released /\ ~ Room /\ BackToParser /\ UNCHANGED channelVars
  /\ UNCHANGED <<cancelled, readerVars>>

\* ... then tries to send; a full channel gives the batch back for a new turn.
TrySend ==
  /\ worker = "try_send"
  /\ \/ Push(pending) /\ BackToParser
     \/ Released /\ Conclude("finished") /\ UNCHANGED channelVars
     \/ /\ ~ Released /\ ~ Room
        /\ worker' = "send_cancellable"
        /\ UNCHANGED <<channelVars, parsed, pending>>
  /\ UNCHANGED <<cancelled, readerVars>>

\* The wrapper of the closure sends the terminal event, blocking, and ends.
SendTerminal ==
  /\ worker = "terminal"
  /\ \/ Push(pending)
     \/ Released /\ UNCHANGED channelVars
  /\ worker' = "gone"
  /\ UNCHANGED <<parsed, pending, cancelled, readerVars>>

\* The thread unwinds outside catch_unwind and sends nothing: the fault the
\* reader's abnormal_termination guards against.
Vanish ==
  /\ worker = "terminal"
  /\ worker' = "gone"
  /\ pending' = NoEvent
  /\ UNCHANGED <<channelVars, parsed, cancelled, readerVars>>

-----------------------------------------------------------------------------
(* BatchWorkerReader *)

\* next_batch: a final answer is repeated, otherwise the thread waits.
CallReader ==
  /\ reader = "idle"
  /\ IF worker_error # "none" THEN worker_answer' = worker_error /\ UNCHANGED reader
     ELSE IF terminal THEN worker_answer' = "eof" /\ UNCHANGED reader
     ELSE reader' = "receiving" /\ UNCHANGED worker_answer
  /\ UNCHANGED <<channelVars, workerVars, cancelled, terminal, worker_error, returned>>

Answer(value) == reader' = "idle" /\ worker_answer' = value

\* Mutant: the terminal error is reported and not kept.
ReceiveForgetful ==
  LET event == Head(channel) IN
  /\ reader = "receiving"
  /\ channel # << >>
  /\ channel' = Tail(channel)
  /\ CASE event.kind = "batch" ->
            /\ returned' = Append(returned, event.batch)
            /\ Answer("batch")
            /\ UNCHANGED terminal
       [] event.kind = "heartbeat" -> UNCHANGED <<reader, terminal, returned, worker_answer>>
       [] event.kind = "finished" -> Answer("eof") /\ terminal' = TRUE /\ UNCHANGED returned
       [] event.kind \in WorkerErrors ->
            Answer(event.kind) /\ terminal' = TRUE /\ UNCHANGED returned
  /\ UNCHANGED <<capacity, workerVars, cancelled, worker_error>>

\* recv inside next_batch.  Joining the worker changes nothing: it sent its
\* last event already.
Receive ==
  LET event == Head(channel) IN
  /\ reader = "receiving"
  /\ channel # << >>
  /\ channel' = Tail(channel)
  /\ CASE event.kind = "batch" ->
            /\ returned' = Append(returned, event.batch)
            /\ Answer("batch")
            /\ UNCHANGED <<terminal, worker_error>>
       [] event.kind = "heartbeat" ->
            UNCHANGED <<reader, terminal, worker_error, returned, worker_answer>>
       [] event.kind = "finished" ->
            /\ terminal' = TRUE
            /\ Answer("eof")
            /\ UNCHANGED <<worker_error, returned>>
       [] event.kind \in WorkerErrors ->
            /\ terminal' = TRUE
            /\ worker_error' = event.kind
            /\ Answer(event.kind)
            /\ UNCHANGED returned
  /\ UNCHANGED <<capacity, workerVars, cancelled>>

\* recv on a channel that closed without a terminal event.
ReceiveClosed ==
  /\ reader = "receiving"
  /\ Disconnected
  /\ terminal' = TRUE
  /\ worker_error' = "abnormal"
  /\ Answer("abnormal")
  /\ UNCHANGED <<channelVars, workerVars, cancelled, returned>>

\* The reader is dropped: the receiver and the queued events go with it.
DropReader ==
  /\ reader = "idle"
  /\ reader' = "released"
  /\ channel' = << >>
  /\ UNCHANGED <<capacity, workerVars, cancelled, terminal, worker_error, returned, worker_answer>>

Cancel ==
  /\ ~ cancelled
  /\ cancelled' = TRUE
  /\ UNCHANGED <<channelVars, workerVars, readerVars>>

-----------------------------------------------------------------------------
WorkerInit ==
  /\ capacity \in Capacities
  /\ channel = << >>
  /\ worker = "parsing"
  /\ parsed = 0
  /\ pending = NoEvent
  /\ cancelled = FALSE
  /\ reader = "idle"
  /\ terminal = FALSE
  /\ worker_error = "none"
  /\ returned = << >>
  /\ worker_answer = "none"

Parse ==
  \/ \E how \in {"send", "send_cancellable"} : ParseBatch(how)
  \/ ParseEnd
  \/ \E error \in WorkerErrors : ParseFails(error)

DeliverEvent == Send \/ CheckToken \/ TrySend \/ SendTerminal

Wait == Receive \/ ReceiveClosed

\* The worker is gone and the reader with it.
WorkerFinished ==
  /\ worker = "gone"
  /\ Released
  /\ UNCHANGED streamVars

WorkerNext ==
  \/ Parse \/ DeliverEvent \/ ProbeReader \/ Vanish
  \/ Wait \/ CallReader \/ DropReader \/ Cancel
  \/ WorkerFinished

WorkerSpec == WorkerInit /\ [][WorkerNext]_streamVars

\* Both threads are scheduled, and a parser gets to its next batch or its
\* end.  Nothing makes the caller call again, release or cancel.
FairWorkerSpec == WorkerSpec /\ WF_streamVars(Parse) /\ WF_streamVars(DeliverEvent) /\ WF_streamVars(Wait)

-----------------------------------------------------------------------------
(* Properties *)

WorkerTypeOK ==
  /\ capacity \in Capacities
  /\ channel \in Seq(Events)
  /\ Len(channel) <= capacity \/ (Len(channel) = 1 /\ reader = "receiving")
  /\ worker \in {"parsing", "send", "send_cancellable", "try_send", "terminal", "gone"}
  /\ parsed \in 0 .. NBatches
  /\ pending \in Events \cup {NoEvent}
  /\ cancelled \in BOOLEAN
  /\ reader \in {"idle", "receiving", "released"}
  /\ terminal \in BOOLEAN
  /\ worker_error \in StreamErrors \cup {"none"}
  /\ returned \in Seq(1 .. NBatches)
  /\ worker_answer \in StreamErrors \cup {"none", "batch", "eof"}

\* Where a batch is queued in the channel.
Queued == {i \in 1 .. Len(channel) : channel[i].kind = "batch"}

\* The batch the worker is sending.
InHand == IF worker \in {"send", "send_cancellable", "try_send"} THEN {pending.batch} ELSE {}

\* The parser has not failed, and its thread did not vanish.
Sound == pending.kind \notin WorkerErrors /\ (worker = "gone" => pending # NoEvent)

\* While the reader exists and the parser has not failed, what was returned,
\* what is queued and what the worker holds are together exactly the batches
\* parsed, in order: backpressure neither drops, repeats nor reorders one.
\* And the caller is told in the end how the parser really ended: the typed
\* error it returned, abnormal only when it sent no terminal event.
NothingIsLost ==
  /\ ~ Released /\ Sound =>
       /\ \A n \in 1 .. Len(returned) : returned[n] = n
       /\ {channel[i].batch : i \in Queued} \cup InHand = Len(returned) + 1 .. parsed
       /\ \A i, j \in Queued : i < j => channel[i].batch < channel[j].batch
       /\ \A i \in Queued : channel[i].batch \notin InHand
  /\ worker_answer \in WorkerErrors => pending.kind = worker_answer
  /\ worker_answer = "abnormal" => worker = "gone" /\ pending = NoEvent

StreamOutcome ==
  IF Released THEN "released"
  ELSE IF worker_answer \in StreamErrors \cup {"eof"} THEN worker_answer ELSE "open"

Stream == INSTANCE BatchStream WITH Errors <- StreamErrors, outcome <- StreamOutcome

\* The caller sees the batches in order and one final answer: EOF only after
\* the last batch, an error for ever after it was reported.
StreamSpec == Stream!Spec

\* A call of next_batch returns, whatever becomes of the worker.
NextBatchReturns == (reader = "receiving") ~> (reader = "idle")

\* The worker of a reader that is dropped, which nobody joins then, ends on
\* its own.
ReleasedReaderEndsWorker == Released ~> (worker = "gone")

\* A worker that waits in send_cancellable for room leaves the wait once the
\* token is cancelled, even if nobody reads any more.
CancelUnblocksSend ==
  (cancelled /\ worker = "send_cancellable")
    ~> worker \notin {"send_cancellable", "try_send"}

\* No silence of the channel leaves the pipeline or the worker waiting: a call
\* is answered, a dropped reader or a cancelled token frees the thread.
NobodyIsLeftWaiting == NextBatchReturns /\ ReleasedReaderEndsWorker /\ CancelUnblocksSend

=============================================================================
