----------------------------- MODULE ReadProofs ------------------------------
(***************************************************************************)
(* The two adapters a layer is read through, for every layer, quota and    *)
(* channel capacity.                                                       *)
(***************************************************************************)
EXTENDS BudgetedRead, BatchWorker, TLAPS

-----------------------------------------------------------------------------
(* BatchWorker: the invariant *)

Terminal == {"finished"} \cup WorkerErrors
Sending  == {"send", "send_cancellable", "try_send"}

\* What the worker holds, by where it is.
PendingFits ==
  /\ worker = "parsing" => pending = NoEvent \/ pending.kind = "batch"
  /\ worker \in Sending => pending = Batch(parsed) /\ parsed > 0
  /\ worker = "terminal" => pending.kind \in Terminal
  /\ worker = "gone" => pending = NoEvent \/ pending.kind \in Terminal

\* The terminal event is the last of the channel, and taken off only once.
OneTerminal ==
  /\ terminal => worker = "gone" /\ channel = << >>
  /\ ~Released =>
       /\ \A i \in 1 .. Len(channel) :
            channel[i].kind \in Terminal =>
              i = Len(channel) /\ worker = "gone" /\ channel[i] = pending
       /\ pending.kind = "finished" => parsed = NBatches
       /\ worker = "gone" /\ pending # NoEvent /\ ~terminal =>
            channel # << >> /\ channel[Len(channel)] = pending

\* The last answer is the final one as soon as there is one.
FinalAnswer ==
  /\ terminal => worker_answer = IF worker_error = "none" THEN "eof" ELSE worker_error
  /\ ~terminal => worker_answer \in {"none", "batch"} /\ worker_error = "none"
  /\ reader = "receiving" => ~terminal
  /\ worker_error \in WorkerErrors => pending.kind = worker_error
  /\ worker_error = "abnormal" => pending = NoEvent

\* What is between the parser and the caller: consecutive batches, up to the
\* last one parsed unless the parser failed meanwhile.
OnTheWay == {channel[i].batch : i \in Queued} \cup InHand

InLine ==
  ~Released =>
    /\ \A n \in 1 .. Len(returned) : returned[n] = n
    /\ \E last \in Len(returned) .. parsed :
         OnTheWay = Len(returned) + 1 .. last /\ (Sound => last = parsed)
    /\ \A i, j \in Queued : i < j => channel[i].batch < channel[j].batch
    /\ \A i \in Queued : channel[i].batch \notin InHand

WorkerInv ==
  WorkerTypeOK /\ PendingFits /\ OneTerminal /\ FinalAnswer /\ InLine

LEMMA TailIs ==
  ASSUME NEW S, NEW s \in Seq(S), s # << >>
  PROVE  /\ Tail(s) \in Seq(S) /\ Len(s) \in Nat /\ Len(s) > 0 /\ Len(Tail(s)) = Len(s) - 1
         /\ Head(s) = s[1] /\ Head(s) \in S
         /\ \A i \in 1 .. Len(s) - 1 : Tail(s)[i] = s[i + 1]
OBVIOUS

LEMMA AppendIs ==
  ASSUME NEW S, NEW s \in Seq(S), NEW e \in S
  PROVE  /\ Append(s, e) \in Seq(S) /\ Len(s) \in Nat /\ Len(Append(s, e)) = Len(s) + 1
         /\ \A i \in 1 .. Len(s) : Append(s, e)[i] = s[i]
         /\ Append(s, e)[Len(s) + 1] = e
OBVIOUS

LEMMA EventFacts ==
  /\ \A n \in 1 .. NBatches : Batch(n) \in Events /\ Batch(n).batch = n /\ Batch(n).kind = "batch"
  /\ \A kind \in {"heartbeat", "finished"} \cup WorkerErrors :
       Event(kind) \in Events /\ Event(kind).kind = kind /\ Event(kind) # NoEvent
  /\ NoEvent \notin Events /\ NoEvent.kind = "none"
  /\ \A e \in Events :
       /\ e.kind \in {"batch", "heartbeat", "finished"} \cup WorkerErrors
       /\ e.kind = "batch" => e.batch \in 1 .. NBatches /\ e = Batch(e.batch)
<1>. USE DEF Batch, Event, NoEvent, WorkerErrors
<1>1. \A n \in 1 .. NBatches : Batch(n) \in Events /\ Batch(n).batch = n /\ Batch(n).kind = "batch"
  BY DEF Events
<1>2. \A kind \in {"heartbeat", "finished"} \cup WorkerErrors :
        Event(kind) \in Events /\ Event(kind).kind = kind /\ Event(kind) # NoEvent
  BY DEF Events
<1>3. ASSUME NEW e \in Events
      PROVE  /\ e # NoEvent
             /\ e.kind \in {"batch", "heartbeat", "finished"} \cup WorkerErrors
             /\ e.kind = "batch" => e.batch \in 1 .. NBatches /\ e = Batch(e.batch)
  <2>1. CASE \E n \in 1 .. NBatches : e = Batch(n)
    BY <2>1
  <2>2. CASE \E kind \in {"heartbeat", "finished"} \cup WorkerErrors : e = Event(kind)
    BY <2>2
  <2>. QED  BY <1>3, <2>1, <2>2 DEF Events
<1>. QED  BY <1>1, <1>2, <1>3

LEMMA WorkerInitHolds == WorkerInit => WorkerInv
<1>. SUFFICES ASSUME WorkerInit PROVE WorkerInv
  OBVIOUS
<1>. USE BatchWorkerAssumption DEF WorkerInit
<1>1. WorkerTypeOK
  <2>1. cancelled \in BOOLEAN /\ terminal \in BOOLEAN
    OBVIOUS
  <2>. QED  BY <2>1 DEF WorkerTypeOK, StreamErrors, WorkerErrors
<1>2. PendingFits /\ OneTerminal
  BY EventFacts DEF PendingFits, OneTerminal, Sending, Terminal
<1>3. FinalAnswer
  BY DEF FinalAnswer, WorkerErrors
<1>4. InLine
  BY DEF InLine, OnTheWay, Queued, InHand
<1>. QED  BY <1>1, <1>2, <1>3, <1>4 DEF WorkerInv

-----------------------------------------------------------------------------
(* BatchWorker: what a step leaves in line *)

\* An event joins the channel: nothing but the batch in hand becomes a batch
\* of the channel.
LEMMA LinePushed ==
  ASSUME WorkerInv, ~Released, NEW event \in Events, channel' = Append(channel, event),
         UNCHANGED <<returned, parsed, reader>>, Sound' => Sound,
         \/ event.kind # "batch" /\ InHand' = InHand
         \/ event = pending /\ worker \in Sending /\ InHand' = {}
  PROVE  InLine'
<1>. USE DEF WorkerInv, WorkerTypeOK
<1>1. /\ Len(channel) \in Nat /\ Len(channel') = Len(channel) + 1
      /\ \A i \in 1 .. Len(channel) : channel'[i] = channel[i]
      /\ channel'[Len(channel) + 1] = event
  BY AppendIs
<1>2. PICK last \in Len(returned) .. parsed :
        OnTheWay = Len(returned) + 1 .. last /\ (Sound => last = parsed)
  BY DEF InLine
<1>3. CASE event.kind # "batch" /\ InHand' = InHand
  <2>1. Queued' = Queued
    BY <1>1, <1>3 DEF Queued
  <2>2. OnTheWay' = OnTheWay
    BY <1>1, <1>3, <2>1 DEF OnTheWay, Queued
  <2>. QED  BY <1>1, <1>2, <1>3, <2>1, <2>2 DEF InLine, Queued
<1>4. CASE event.kind = "batch" /\ event = pending /\ worker \in Sending /\ InHand' = {}
  <2>1. Queued' = Queued \cup {Len(channel) + 1}
    BY <1>1, <1>4 DEF Queued
  <2>2. InHand = {event.batch}
    BY <1>4 DEF InHand, Sending
  <2>3. OnTheWay' = OnTheWay
    BY <1>1, <1>4, <2>1, <2>2 DEF OnTheWay, Queued
  <2>4. \A i \in Queued : channel[i].batch < event.batch
    <3>1. event.batch = parsed
      BY <1>4, EventFacts DEF PendingFits, Sending
    <3>2. ASSUME NEW i \in Queued PROVE channel[i].batch < event.batch
      <4>1. channel[i].batch \in OnTheWay /\ channel[i].batch \notin InHand
        BY <3>2 DEF InLine, OnTheWay
      <4>. QED  BY <4>1, <1>2, <2>2, <3>1
    <3>. QED  BY <3>2
  <2>5. \A i, j \in Queued' : i < j => channel'[i].batch < channel'[j].batch
    BY <1>1, <2>1, <2>4 DEF InLine, Queued
  <2>. QED  BY <1>2, <1>4, <2>3, <2>5 DEF InLine
<1>5. worker \in Sending /\ event = pending => event.kind = "batch"
  BY EventFacts DEF PendingFits
<1>. QED  BY <1>3, <1>4, <1>5

\* The channel, what was returned and the batch in hand stay as they are.
LEMMA LineSame ==
  ASSUME WorkerInv, UNCHANGED <<channel, returned, parsed>>, InHand' = InHand,
         Sound' => Sound, ~Released' => ~Released
  PROVE  InLine'
<1>1. Queued' = Queued /\ OnTheWay' = OnTheWay
  BY DEF Queued, OnTheWay
<1>. QED  BY <1>1 DEF WorkerInv, InLine

\* The parser builds one more batch and holds it.
LEMMA LineParsed ==
  ASSUME WorkerInv, UNCHANGED <<channel, returned, reader>>, InHand = {},
         parsed' = parsed + 1, InHand' = {parsed'}, Sound
  PROVE  InLine'
<1>. SUFFICES ASSUME ~Released PROVE InLine'
  BY DEF InLine, Released
<1>. USE DEF WorkerInv, WorkerTypeOK
<1>1. /\ Queued' = Queued
      /\ OnTheWay' = OnTheWay \cup {parsed + 1}
  BY DEF Queued, OnTheWay
<1>2. OnTheWay = Len(returned) + 1 .. parsed /\ Len(returned) \in Nat /\ Len(returned) <= parsed
  BY DEF InLine
<1>3. OnTheWay' = Len(returned') + 1 .. parsed'
  BY <1>1, <1>2
<1>4. parsed' \in Len(returned') .. parsed'
  BY <1>2
<1>5. \A i \in Queued : channel[i].batch \in OnTheWay
  BY DEF OnTheWay
<1>6. \A i \in Queued' : channel'[i].batch \notin InHand'
  BY <1>1, <1>2, <1>5
<1>. QED  BY <1>1, <1>2, <1>3, <1>4, <1>6 DEF InLine

\* The parser fails while it holds a batch.
LEMMA LineDropped ==
  ASSUME WorkerInv, UNCHANGED <<channel, returned, parsed, reader>>, InHand = {parsed},
         Sound, InHand' = {}, ~Sound'
  PROVE  InLine'
<1>. SUFFICES ASSUME ~Released PROVE InLine'
  BY DEF InLine, Released
<1>. USE DEF WorkerInv, WorkerTypeOK
<1>1. /\ Queued' = Queued
      /\ OnTheWay' = {channel[i].batch : i \in Queued}
      /\ OnTheWay = OnTheWay' \cup {parsed}
  BY DEF Queued, OnTheWay
<1>2. OnTheWay = Len(returned) + 1 .. parsed /\ Len(returned) \in Nat /\ Len(returned) <= parsed
  BY DEF InLine
<1>3. parsed \notin OnTheWay'
  BY <1>1 DEF InLine
<1>4. parsed - 1 \in Len(returned) .. parsed
  BY <1>1, <1>2
<1>5. OnTheWay' = Len(returned) + 1 .. parsed - 1
  BY <1>1, <1>2, <1>3
<1>. QED  BY <1>1, <1>2, <1>4, <1>5 DEF InLine

\* The reader takes the first event off the channel.
LEMMA LineTaken ==
  ASSUME WorkerInv, ~Released, channel # << >>, channel' = Tail(channel),
         UNCHANGED parsed, InHand' = InHand, Sound' => Sound,
         IF Head(channel).kind = "batch" THEN returned' = Append(returned, Head(channel).batch)
         ELSE returned' = returned
  PROVE  InLine'
<1>. USE DEF WorkerInv, WorkerTypeOK
<1>1. /\ Len(channel) \in Nat /\ Len(channel) > 0 /\ Len(channel') = Len(channel) - 1
      /\ Head(channel) = channel[1]
      /\ \A i \in 1 .. Len(channel) - 1 : channel'[i] = channel[i + 1]
  BY TailIs
<1>2. PICK last \in Len(returned) .. parsed :
        OnTheWay = Len(returned) + 1 .. last /\ (Sound => last = parsed)
  BY DEF InLine
<1>. DEFINE k == Len(returned)
<1>3. k \in Nat
  OBVIOUS
<1>4. \A i \in 1 .. Len(channel') : i \in Queued' <=> i + 1 \in Queued
  BY <1>1 DEF Queued
<1>5. /\ \A i, j \in Queued' : i < j => channel'[i].batch < channel'[j].batch
      /\ \A i \in Queued' : channel'[i].batch \notin InHand'
  <2>1. \A i \in Queued' : i \in 1 .. Len(channel') /\ i + 1 \in Queued /\ channel'[i] = channel[i + 1]
    BY <1>1, <1>4 DEF Queued
  <2>2. \A i, j \in Queued' : i < j => i + 1 < j + 1
    BY <2>1, <1>1
  <2>. QED  BY <2>1, <2>2 DEF InLine
<1>6. OnTheWay' = {channel[i].batch : i \in Queued \ {1}} \cup InHand
  <2>1. \A i \in Queued \ {1} : i - 1 \in Queued' /\ channel'[i - 1] = channel[i]
    <3>1. ASSUME NEW i \in Queued \ {1} PROVE i - 1 \in 1 .. Len(channel') /\ (i - 1) + 1 = i
      BY <1>1 DEF Queued
    <3>. QED  BY <3>1, <1>1, <1>4
  <2>2. \A i \in Queued' : i + 1 \in Queued \ {1} /\ channel'[i] = channel[i + 1]
    BY <1>1, <1>4 DEF Queued
  <2>3. {channel'[i].batch : i \in Queued'} = {channel[i].batch : i \in Queued \ {1}}
    <3>1. ASSUME NEW i \in Queued' PROVE channel'[i].batch \in {channel[j].batch : j \in Queued \ {1}}
      BY <2>2
    <3>2. ASSUME NEW i \in Queued \ {1} PROVE channel[i].batch \in {channel'[j].batch : j \in Queued'}
      BY <2>1
    <3>. QED  BY <3>1, <3>2
  <2>. QED  BY <2>3 DEF OnTheWay
<1>7. CASE Head(channel).kind # "batch"
  <2>1. 1 \notin Queued
    BY <1>1, <1>7 DEF Queued
  <2>2. OnTheWay' = OnTheWay
    BY <1>6, <2>1 DEF OnTheWay
  <2>. QED  BY <1>2, <1>5, <1>7, <2>2 DEF InLine
<1>8. CASE Head(channel).kind = "batch"
  <2>1. 1 \in Queued /\ channel[1].batch \in OnTheWay /\ channel[1].batch \notin InHand
    BY <1>1, <1>8 DEF Queued, OnTheWay, InLine
  <2>2. \A i \in Queued \ {1} : channel[1].batch < channel[i].batch
    <3>1. \A i \in Queued \ {1} : 1 < i
      BY <1>1 DEF Queued
    <3>. QED  BY <2>1, <3>1 DEF InLine
  <2>3. \A n \in InHand : n = parsed
    BY EventFacts DEF InHand, PendingFits, Sending
  <2>4. channel[1].batch = k + 1
    <3>1. k + 1 \in OnTheWay /\ channel[1].batch \in k + 1 .. last
      BY <1>2, <1>3, <2>1
    <3>2. CASE k + 1 \in InHand
      BY <3>1, <3>2, <2>1, <2>3, <1>2, <1>3
    <3>3. CASE \E i \in Queued : k + 1 = channel[i].batch
      <4>1. PICK i \in Queued : k + 1 = channel[i].batch
        BY <3>3
      <4>. QED  BY <3>1, <4>1, <2>2, <1>2, <1>3
    <3>. QED  BY <3>1, <3>2, <3>3 DEF OnTheWay
  <2>5. OnTheWay' = OnTheWay \ {k + 1}
    <3>1. k + 1 \notin OnTheWay'
      BY <1>6, <2>1, <2>2, <2>4, <1>3
    <3>2. OnTheWay = OnTheWay' \cup {k + 1}
      BY <1>6, <2>1, <2>4 DEF OnTheWay
    <3>. QED  BY <3>1, <3>2
  <2>6. k + 1 \in 1 .. NBatches
    BY <1>1, <2>1, <2>4, <1>8, EventFacts
  <2>7. /\ Len(returned') = k + 1
        /\ \A n \in 1 .. k : returned'[n] = returned[n]
        /\ returned'[k + 1] = k + 1
    BY <1>1, <1>8, <2>4, <2>6, AppendIs
  <2>8. \A n \in 1 .. Len(returned') : returned'[n] = n
    BY <1>3, <2>7 DEF InLine
  <2>9. last \in Len(returned') .. parsed'
    BY <1>2, <1>3, <2>1, <2>7
  <2>10. OnTheWay' = Len(returned') + 1 .. last
    BY <1>2, <1>3, <2>5, <2>7
  <2>. QED  BY <1>2, <1>5, <2>8, <2>9, <2>10 DEF InLine
<1>. QED  BY <1>7, <1>8

-----------------------------------------------------------------------------
(* BatchWorker: every step keeps the invariant *)

LEMMA ParserKeeps ==
  ASSUME WorkerInv, Parse \/ ProbeReader
  PROVE  WorkerInv'
<1>. USE BatchWorkerAssumption DEF WorkerInv, channelVars, workerVars, readerVars
<1>0. worker = "parsing" => Sound /\ InHand = {} /\ ~terminal
  BY EventFacts DEF WorkerTypeOK, PendingFits, OneTerminal, Sound, InHand, WorkerErrors, NoEvent, Event
<1>1. ASSUME NEW how \in {"send", "send_cancellable"}, ParseBatch(how) PROVE WorkerInv'
  <2>. USE <1>1 DEF ParseBatch
  <2>1. /\ parsed \in 0 .. NBatches /\ parsed' = parsed + 1 /\ parsed' \in 1 .. NBatches
        /\ pending' \in Events /\ pending'.batch = parsed' /\ pending'.kind = "batch"
        /\ pending' = Batch(parsed') /\ pending' # NoEvent
    BY EventFacts DEF WorkerTypeOK
  <2>2. WorkerTypeOK' /\ PendingFits'
    BY <2>1 DEF WorkerTypeOK, PendingFits, Sending
  <2>3. OneTerminal' /\ FinalAnswer'
    BY <1>0, <2>1 DEF OneTerminal, FinalAnswer, Released, WorkerErrors
  <2>4. InLine'
    BY <1>0, <2>1, LineParsed DEF InHand
  <2>. QED  BY <2>2, <2>3, <2>4
<1>2. ASSUME NEW kind \in {"finished"} \cup WorkerErrors, Conclude(kind), worker = "parsing",
             kind = "finished" => Released \/ parsed = NBatches,
             UNCHANGED <<channelVars, cancelled, readerVars>>
      PROVE  WorkerInv'
  <2>. USE <1>2 DEF Conclude
  <2>1. pending' \in Events /\ pending'.kind = kind /\ pending' # NoEvent
    BY EventFacts
  <2>2. WorkerTypeOK' /\ PendingFits'
    BY <2>1 DEF WorkerTypeOK, PendingFits, Sending, Terminal
  <2>3. OneTerminal' /\ FinalAnswer'
    BY <1>0, <2>1 DEF OneTerminal, FinalAnswer, Released, WorkerErrors
  <2>4. InLine'
    BY <1>0, LineSame DEF InHand, Released
  <2>. QED  BY <2>2, <2>3, <2>4
<1>3. ASSUME NEW event \in Events, event.kind = "heartbeat", worker = "parsing", Push(event),
             UNCHANGED <<workerVars, cancelled, readerVars>>
      PROVE  WorkerInv'
  <2>. USE <1>3 DEF Push
  <2>2. /\ Len(channel) \in Nat /\ Len(channel') = Len(channel) + 1 /\ channel' \in Seq(Events)
        /\ \A i \in 1 .. Len(channel) : channel'[i] = channel[i]
        /\ channel'[Len(channel) + 1] = event
        /\ channel = << >> => Len(channel) = 0
    BY AppendIs DEF WorkerTypeOK
  <2>3. WorkerTypeOK' /\ PendingFits'
    <3>1. capacity \in Nat
      BY DEF WorkerTypeOK
    <3>2. Len(channel') <= capacity \/ (Len(channel') = 1 /\ reader' = "receiving")
      BY <2>2, <3>1 DEF Room
    <3>. QED  BY <2>2, <3>2 DEF WorkerTypeOK, PendingFits
  <2>4. OneTerminal' /\ FinalAnswer'
    <3>1. \A i \in 1 .. Len(channel) : channel[i].kind \notin Terminal
      BY DEF OneTerminal
    <3>2. \A i \in 1 .. Len(channel') : channel'[i].kind \notin Terminal
      BY <2>2, <3>1 DEF Terminal, WorkerErrors
    <3>. QED  BY <1>0, <3>2 DEF OneTerminal, FinalAnswer, Released
  <2>5. InLine'
    BY LinePushed DEF InHand, Sound
  <2>. QED  BY <2>3, <2>4, <2>5
<1>4. CASE ProbeReader
  <2>1. CASE Released
    BY <1>2, <1>4, <2>1 DEF ProbeReader
  <2>2. CASE ~Released
    BY <1>3, <1>4, <2>2, EventFacts DEF ProbeReader
  <2>. QED  BY <2>1, <2>2
<1>5. CASE \E how \in {"send", "send_cancellable"} : ParseBatch(how)
  BY <1>1, <1>5
<1>6. CASE ParseEnd
  BY <1>2, <1>6 DEF ParseEnd
<1>7. CASE \E error \in WorkerErrors : ParseFails(error)
  <2>1. PICK error \in WorkerErrors : ParseFails(error)
    BY <1>7
  <2>2. error # "finished"
    BY DEF WorkerErrors
  <2>. QED  BY <1>2, <2>1, <2>2 DEF ParseFails
<1>. QED  BY <1>4, <1>5, <1>6, <1>7 DEF Parse

\* What the worker holds joins the channel.
LEMMA PendingPushed ==
  ASSUME WorkerInv, Push(pending), UNCHANGED <<parsed, pending, cancelled, readerVars>>,
         \/ worker \in Sending /\ worker' = "parsing"
         \/ worker = "terminal" /\ worker' = "gone"
  PROVE  WorkerInv'
<1>. USE BatchWorkerAssumption DEF WorkerInv, channelVars, workerVars, readerVars, Push
<1>1. /\ pending \in Events /\ pending # NoEvent /\ ~terminal
      /\ worker \in Sending => pending.kind = "batch"
      /\ worker = "terminal" => pending.kind \in Terminal
  BY EventFacts DEF WorkerTypeOK, PendingFits, OneTerminal, Terminal, WorkerErrors, Sending
<1>2. /\ Len(channel) \in Nat /\ Len(channel') = Len(channel) + 1 /\ channel' \in Seq(Events)
      /\ \A i \in 1 .. Len(channel) : channel'[i] = channel[i]
      /\ channel'[Len(channel) + 1] = pending
      /\ channel = << >> => Len(channel) = 0
      /\ channel' # << >>
  BY <1>1, AppendIs DEF WorkerTypeOK
<1>3. WorkerTypeOK' /\ PendingFits'
  <2>1. capacity \in Nat
    BY DEF WorkerTypeOK
  <2>2. Len(channel') <= capacity \/ (Len(channel') = 1 /\ reader' = "receiving")
    BY <1>2, <2>1 DEF Room
  <2>3. WorkerTypeOK'
    BY <1>2, <2>2 DEF WorkerTypeOK
  <2>. QED  BY <2>3, <1>1 DEF PendingFits, Sending
<1>4. \A i \in 1 .. Len(channel) : channel[i].kind \notin Terminal
  BY DEF OneTerminal, Sending
<1>5. OneTerminal' /\ FinalAnswer'
  <2>1. CASE worker \in Sending
    <3>1. \A i \in 1 .. Len(channel') : channel'[i].kind \notin Terminal
      BY <1>1, <1>2, <1>4, <2>1 DEF Terminal, WorkerErrors
    <3>. QED  BY <1>1, <2>1, <3>1 DEF OneTerminal, FinalAnswer, Released, Sending
  <2>2. CASE worker = "terminal"
    <3>1. \A i \in 1 .. Len(channel') :
            channel'[i].kind \in Terminal => i = Len(channel') /\ channel'[i] = pending
      BY <1>1, <1>2, <1>4, <2>2
    <3>. QED  BY <1>1, <1>2, <2>2, <3>1 DEF OneTerminal, FinalAnswer, Released, Sending
  <2>. QED  BY <2>1, <2>2
<1>6. InLine'
  <2>1. CASE worker \in Sending
    BY <1>1, <2>1, LinePushed DEF InHand, Sound, Sending
  <2>2. CASE worker = "terminal"
    <3>1. pending.kind # "batch"
      BY <1>1, <2>2 DEF Terminal, WorkerErrors
    <3>. QED  BY <1>1, <2>2, <3>1, LinePushed DEF InHand, Sound, Sending
  <2>. QED  BY <2>1, <2>2
<1>. QED  BY <1>3, <1>5, <1>6

\* Without its reader the worker concludes: nobody is told anything any more.
LEMMA ReleasedKeeps ==
  ASSUME WorkerInv, Released, UNCHANGED <<channelVars, parsed, cancelled, readerVars>>,
         \/ worker \in Sending /\ Conclude("finished")
         \/ worker = "terminal" /\ worker' = "gone" /\ pending' = pending
  PROVE  WorkerInv'
<1>. USE DEF WorkerInv, channelVars, readerVars
<1>1. /\ pending' \in Events /\ pending' # NoEvent /\ pending'.kind \in Terminal /\ ~terminal
      /\ worker' \in {"terminal", "gone"}
  BY EventFacts DEF WorkerTypeOK, PendingFits, OneTerminal, Terminal, WorkerErrors, Sending, Conclude
<1>2. WorkerTypeOK' /\ PendingFits'
  BY <1>1 DEF WorkerTypeOK, PendingFits, Sending
<1>3. worker_error \notin WorkerErrors \cup {"abnormal"}
  BY <1>1 DEF FinalAnswer, WorkerErrors
<1>4. OneTerminal' /\ FinalAnswer'
  BY <1>1, <1>3 DEF OneTerminal, FinalAnswer, Released, WorkerErrors
<1>. QED  BY <1>2, <1>4 DEF InLine, Released

LEMMA WorkerKeeps ==
  ASSUME WorkerInv, DeliverEvent \/ Vanish
  PROVE  WorkerInv'
<1>. USE DEF WorkerInv, channelVars, workerVars, readerVars
<1>0. /\ worker \in Sending => /\ pending \in Events /\ pending.kind = "batch" /\ pending.batch = parsed
                               /\ Sound /\ InHand = {parsed} /\ ~terminal
      /\ worker = "terminal" => ~terminal /\ InHand = {}
  BY EventFacts DEF WorkerTypeOK, PendingFits, OneTerminal, Sound, InHand, WorkerErrors, Sending
<1>1. ASSUME CheckToken, cancelled PROVE WorkerInv'
  <2>. USE <1>1 DEF CheckToken, Conclude
  <2>1. pending' \in Events /\ pending'.kind = "cancelled" /\ pending' # NoEvent
    BY EventFacts DEF WorkerErrors
  <2>2. WorkerTypeOK' /\ PendingFits'
    BY <2>1 DEF WorkerTypeOK, PendingFits, Sending, Terminal, WorkerErrors
  <2>3. OneTerminal' /\ FinalAnswer'
    BY <1>0, <2>1 DEF OneTerminal, FinalAnswer, Released, WorkerErrors, Sending
  <2>4. ~Sound' /\ InHand' = {}
    BY <2>1 DEF Sound, InHand, WorkerErrors
  <2>5. InLine'
    BY <1>0, <2>4, LineDropped DEF Sending
  <2>. QED  BY <2>2, <2>3, <2>5
<1>2. ASSUME worker \in {"send_cancellable", "try_send"}, worker' \in {"send_cancellable", "try_send"},
             UNCHANGED <<parsed, pending, channelVars, cancelled, readerVars>>
      PROVE  WorkerInv'
  <2>. USE <1>2
  <2>1. WorkerTypeOK' /\ PendingFits'
    BY DEF WorkerTypeOK, PendingFits, Sending
  <2>2. OneTerminal' /\ FinalAnswer'
    BY <1>0 DEF OneTerminal, FinalAnswer, Released, Sending
  <2>3. InLine'
    BY LineSame DEF InHand, Sound, Released
  <2>. QED  BY <2>1, <2>2, <2>3
<1>3. ASSUME Vanish PROVE WorkerInv'
  <2>. USE <1>3 DEF Vanish
  <2>1. NoEvent.kind = "none"
    BY EventFacts
  <2>2. WorkerTypeOK' /\ PendingFits'
    BY DEF WorkerTypeOK, PendingFits, Sending
  <2>3. OneTerminal'
    <3>1. ~Released => \A i \in 1 .. Len(channel) : channel[i].kind \notin Terminal
      BY DEF OneTerminal
    <3>. QED  BY <1>0, <2>1, <3>1 DEF OneTerminal, Released
  <2>4. FinalAnswer'
    BY <1>0 DEF FinalAnswer, WorkerErrors
  <2>5. InLine'
    BY <1>0, LineSame DEF InHand, Sound, Released
  <2>. QED  BY <2>2, <2>3, <2>4, <2>5
<1>4. CASE Send
  BY <1>4, PendingPushed, ReleasedKeeps DEF Send, BackToParser, Conclude, Sending
<1>5. CASE TrySend
  BY <1>5, <1>2, PendingPushed, ReleasedKeeps DEF TrySend, BackToParser, Conclude, Sending
<1>6. CASE SendTerminal
  BY <1>6, PendingPushed, ReleasedKeeps DEF SendTerminal
<1>7. CASE CheckToken
  BY <1>7, <1>1, <1>2 DEF CheckToken
<1>. QED  BY <1>3, <1>4, <1>5, <1>6, <1>7 DEF DeliverEvent

LEMMA CallerKeeps ==
  ASSUME WorkerInv, CallReader \/ DropReader \/ Cancel \/ WorkerFinished \/ UNCHANGED streamVars
  PROVE  WorkerInv'
<1>. USE DEF WorkerInv, channelVars, workerVars, readerVars
<1>0. Sound' = Sound /\ InHand' = InHand
  BY DEF CallReader, DropReader, Cancel, WorkerFinished, streamVars, Sound, InHand
<1>1. CASE CallReader
  <2>1. WorkerTypeOK'
    BY <1>1 DEF CallReader, WorkerTypeOK, StreamErrors
  <2>2. PendingFits' /\ OneTerminal'
    BY <1>1 DEF CallReader, PendingFits, OneTerminal, Released
  <2>3. FinalAnswer'
    BY <1>1 DEF CallReader, FinalAnswer, WorkerErrors, WorkerTypeOK
  <2>4. InLine'
    BY <1>0, <1>1, LineSame DEF CallReader, Released
  <2>. QED  BY <2>1, <2>2, <2>3, <2>4
<1>2. CASE DropReader
  <2>1. WorkerTypeOK'
    BY <1>2, BatchWorkerAssumption DEF DropReader, WorkerTypeOK
  <2>. QED  BY <1>2, <2>1 DEF DropReader, PendingFits, OneTerminal, FinalAnswer, InLine, Released
<1>3. CASE Cancel \/ WorkerFinished \/ UNCHANGED streamVars
  <2>1. cancelled' \in BOOLEAN
    BY <1>3 DEF Cancel, WorkerFinished, streamVars, WorkerTypeOK
  <2>2. UNCHANGED <<channelVars, workerVars, readerVars>>
    BY <1>3 DEF Cancel, WorkerFinished, streamVars
  <2>3. WorkerTypeOK' /\ PendingFits' /\ OneTerminal' /\ FinalAnswer'
    BY <2>1, <2>2 DEF WorkerTypeOK, PendingFits, OneTerminal, FinalAnswer, Released
  <2>4. InLine'
    BY <1>0, <2>2, LineSame DEF Released
  <2>. QED  BY <2>3, <2>4
<1>. QED  BY <1>1, <1>2, <1>3

LEMMA WaitKeeps ==
  ASSUME WorkerInv, Wait
  PROVE  WorkerInv'
<1>. USE DEF WorkerInv, channelVars, workerVars, readerVars
<1>0. Sound' = Sound /\ InHand' = InHand /\ ~Released /\ ~terminal /\ reader = "receiving"
  BY DEF Wait, Receive, ReceiveClosed, Sound, InHand, Released, FinalAnswer
<1>1. ASSUME ReceiveClosed PROVE WorkerInv'
  <2>. USE <1>1 DEF ReceiveClosed, Answer, Disconnected
  <2>1. pending = NoEvent
    BY <1>0 DEF OneTerminal
  <2>2. terminal' \in BOOLEAN
    OBVIOUS
  <2>3. WorkerTypeOK'
    <3>1. Len(channel) = 0
      OBVIOUS
    <3>. QED  BY <2>2, <3>1, BatchWorkerAssumption DEF WorkerTypeOK, StreamErrors
  <2>4. PendingFits' /\ OneTerminal'
    BY <1>0 DEF PendingFits, OneTerminal, Released
  <2>5. FinalAnswer'
    BY <2>1 DEF FinalAnswer, WorkerErrors
  <2>6. InLine'
    BY <1>0, LineSame DEF Released
  <2>. QED  BY <2>3, <2>4, <2>5, <2>6
<1>2. ASSUME Receive PROVE WorkerInv'
  <2>. DEFINE event == Head(channel)
  <2>. USE <1>2 DEF Receive, Answer
  <2>1. /\ Len(channel) \in Nat /\ Len(channel) > 0 /\ Len(channel') = Len(channel) - 1
        /\ channel' \in Seq(Events)
        /\ event = channel[1] /\ event \in Events
        /\ \A i \in 1 .. Len(channel) - 1 : channel'[i] = channel[i + 1]
    BY TailIs DEF WorkerTypeOK
  <2>2. event.kind \in Terminal => Len(channel) = 1 /\ channel' = << >> /\ worker = "gone" /\ event = pending
    BY <1>0, <2>1 DEF OneTerminal
  <2>3. Len(channel') <= capacity \/ (Len(channel') = 1 /\ reader' = "receiving")
    BY <2>1, BatchWorkerAssumption DEF WorkerTypeOK
  <2>4. event.kind \in {"batch", "heartbeat", "finished"} \cup WorkerErrors
    BY <2>1, EventFacts
  <2>5. OneTerminal' /\ PendingFits' 
    <3>1. PendingFits'
      BY DEF PendingFits
    <3>2. \A i \in 1 .. Len(channel') :
            channel'[i].kind \in Terminal =>
              i = Len(channel') /\ worker = "gone" /\ channel'[i] = pending
      BY <1>0, <2>1 DEF OneTerminal
    <3>3. event.kind \notin Terminal /\ channel # << >> /\ channel[Len(channel)] = pending /\ pending.kind \in Terminal
            => channel' # << >> /\ channel'[Len(channel')] = pending
      BY <2>1
    <3>4. event.kind \notin Terminal => terminal' = terminal
      BY <2>4 DEF Terminal
    <3>5. event.kind \in Terminal => terminal'
      BY <2>4 DEF Terminal, WorkerErrors
    <3>6. OneTerminal'
      BY <1>0, <2>2, <3>2, <3>3, <3>4, <3>5 DEF OneTerminal, PendingFits, Released
    <3>. QED  BY <3>1, <3>6
  <2>6. CASE event.kind = "batch"
    <3>0. /\ returned' = Append(returned, event.batch) /\ reader' = "idle" /\ worker_answer' = "batch"
          /\ UNCHANGED <<terminal, worker_error>>
      BY <2>6 DEF WorkerErrors
    <3>1. event.batch \in 1 .. NBatches
      BY <2>1, <2>6, EventFacts
    <3>2. returned' \in Seq(1 .. NBatches)
      BY <3>0, <3>1, AppendIs DEF WorkerTypeOK
    <3>3. WorkerTypeOK'
      BY <2>1, <2>3, <3>0, <3>2 DEF WorkerTypeOK
    <3>4. FinalAnswer'
      BY <1>0, <3>0 DEF FinalAnswer, WorkerErrors
    <3>5. InLine'
      BY <1>0, <2>6, <3>0, LineTaken
    <3>. QED  BY <2>5, <3>3, <3>4, <3>5
  <2>7. CASE event.kind = "heartbeat"
    <3>1. UNCHANGED <<reader, terminal, worker_error, returned, worker_answer>>
      BY <2>7 DEF WorkerErrors
    <3>3. WorkerTypeOK'
      BY <2>1, <2>3, <3>1 DEF WorkerTypeOK
    <3>4. FinalAnswer'
      BY <1>0, <3>1 DEF FinalAnswer
    <3>5. InLine'
      BY <1>0, <2>7, <3>1, LineTaken
    <3>. QED  BY <2>5, <3>3, <3>4, <3>5
  <2>8. CASE event.kind = "finished"
    <3>1. terminal' /\ worker_answer' = "eof" /\ UNCHANGED <<worker_error, returned>> /\ reader' = "idle"
      BY <2>8 DEF WorkerErrors
    <3>2. terminal' \in BOOLEAN
      BY <2>8
    <3>3. WorkerTypeOK'
      BY <2>1, <2>3, <3>1, <3>2 DEF WorkerTypeOK
    <3>4. FinalAnswer'
      BY <1>0, <3>1 DEF FinalAnswer, WorkerErrors
    <3>5. InLine'
      BY <1>0, <2>8, <3>1, LineTaken
    <3>. QED  BY <2>5, <3>3, <3>4, <3>5
  <2>9. CASE event.kind \in WorkerErrors
    <3>1. /\ terminal' /\ worker_error' = event.kind /\ worker_answer' = event.kind /\ reader' = "idle"
          /\ returned' = returned /\ event.kind # "batch" /\ event.kind # "none" /\ event.kind # "abnormal"
      BY <2>9 DEF WorkerErrors
    <3>2. terminal' \in BOOLEAN
      BY <2>9 DEF WorkerErrors
    <3>3. WorkerTypeOK'
      BY <2>1, <2>3, <2>9, <3>1, <3>2 DEF WorkerTypeOK, StreamErrors
    <3>4. FinalAnswer'
      BY <2>2, <2>9, <3>1 DEF FinalAnswer, Terminal
    <3>5. InLine'
      BY <1>0, <2>9, <3>1, LineTaken
    <3>. QED  BY <2>5, <3>3, <3>4, <3>5
  <2>. QED  BY <2>4, <2>6, <2>7, <2>8, <2>9
<1>. QED  BY <1>1, <1>2 DEF Wait

LEMMA WorkerStepHolds == WorkerInv /\ [WorkerNext]_streamVars => WorkerInv'
BY ParserKeeps, WorkerKeeps, WaitKeeps, CallerKeeps DEF WorkerNext

LEMMA WorkerInvHolds == WorkerSpec => []WorkerInv
BY WorkerInitHolds, WorkerStepHolds, PTL DEF WorkerSpec

\* No interleaving of the parser's thread, the caller's and a cancellation
\* loses, repeats or reorders a batch, and the caller is told how the parser
\* really ended: for every number of batches and every capacity, the
\* rendezvous channel included.
THEOREM NothingLost == WorkerSpec => []NothingIsLost
<1>1. WorkerInv => NothingIsLost
  <2>. SUFFICES ASSUME WorkerInv PROVE NothingIsLost
    OBVIOUS
  <2>. USE DEF WorkerInv
  <2>1. ~Released /\ Sound => OnTheWay = Len(returned) + 1 .. parsed
    BY DEF InLine
  <2>2. worker_answer \in WorkerErrors => pending.kind = worker_answer
    BY DEF FinalAnswer, WorkerErrors, WorkerTypeOK
  <2>3. worker_answer = "abnormal" => worker = "gone" /\ pending = NoEvent
    BY DEF FinalAnswer, OneTerminal, WorkerTypeOK, StreamErrors, WorkerErrors
  <2>. QED  BY <2>1, <2>2, <2>3 DEF NothingIsLost, InLine, OnTheWay
<1>. QED  BY <1>1, WorkerInvHolds, PTL

-----------------------------------------------------------------------------
(* BatchWorker: the stream the caller sees *)

LEMMA StreamStep ==
  ASSUME WorkerInv, [WorkerNext]_streamVars
  PROVE  [Stream!Next]_<<returned, StreamOutcome>>
<1>. USE DEF WorkerInv, channelVars, workerVars, readerVars
<1>0. WorkerInv'
  BY WorkerStepHolds
<1>1. CASE UNCHANGED <<reader, worker_answer, returned>>
  BY <1>1 DEF StreamOutcome, Released
<1>2. CASE CallReader
  <2>1. StreamOutcome' = StreamOutcome
    BY <1>2 DEF CallReader, StreamOutcome, FinalAnswer, Released
  <2>. QED  BY <1>2, <2>1 DEF CallReader
<1>3. CASE DropReader
  <2>1. StreamOutcome' = "released" /\ UNCHANGED returned
    BY <1>3 DEF DropReader, StreamOutcome, Released
  <2>2. StreamOutcome # "released"
    BY <1>3 DEF DropReader, StreamOutcome, Released, StreamErrors, WorkerErrors
  <2>3. Stream!Release
    BY <2>1, <2>2 DEF Stream!Release
  <2>. QED  BY <2>3 DEF Stream!Next
<1>4. CASE Wait
  <2>1. reader = "receiving" /\ ~terminal /\ ~Released /\ StreamOutcome = "open"
    BY <1>4 DEF Wait, Receive, ReceiveClosed, Released, FinalAnswer, StreamOutcome, StreamErrors, WorkerErrors
  <2>2. ASSUME NEW error \in StreamErrors, worker_answer' = error, reader' = "idle", UNCHANGED returned
        PROVE  Stream!Next
    <3>1. StreamOutcome' = error
      BY <2>2 DEF StreamOutcome, Released
    <3>2. Stream!Fail(error)
      BY <2>1, <2>2, <3>1 DEF Stream!Fail
    <3>. QED  BY <3>2 DEF Stream!Next
  <2>3. CASE ReceiveClosed
    BY <2>2, <2>3 DEF ReceiveClosed, Answer, StreamErrors
  <2>4. CASE Receive
    <3>. DEFINE event == Head(channel)
    <3>. USE <2>4 DEF Receive, Answer
    <3>1. /\ event = channel[1] /\ event \in Events /\ Len(channel) \in Nat /\ Len(channel) > 0
          /\ event.kind \in {"batch", "heartbeat", "finished"} \cup WorkerErrors
      BY TailIs, EventFacts DEF WorkerTypeOK
    <3>2. CASE event.kind = "batch"
      <4>1. /\ returned' = Append(returned, event.batch) /\ reader' = "idle" /\ worker_answer' = "batch"
        BY <3>2 DEF WorkerErrors
      <4>2. event.batch \in 1 .. NBatches
        BY <3>1, <3>2, EventFacts
      <4>3. /\ Len(returned) \in Nat /\ Len(returned') = Len(returned) + 1
            /\ returned'[Len(returned) + 1] = event.batch
        BY <4>1, <4>2, AppendIs DEF WorkerTypeOK
      <4>4. event.batch = Len(returned) + 1
        BY <1>0, <4>1, <4>3 DEF InLine, Released
      <4>5. StreamOutcome' = "open"
        BY <4>1 DEF StreamOutcome, Released, StreamErrors, WorkerErrors
      <4>6. Stream!Deliver
        BY <2>1, <4>1, <4>2, <4>3, <4>4, <4>5, BatchWorkerAssumption DEF Stream!Deliver
      <4>. QED  BY <4>6 DEF Stream!Next
    <3>3. CASE event.kind = "heartbeat"
      BY <3>3, <1>1 DEF WorkerErrors
    <3>4. CASE event.kind = "finished"
      <4>1. worker_answer' = "eof" /\ UNCHANGED returned /\ reader' = "idle"
        BY <3>4 DEF WorkerErrors
      <4>2. Len(channel) = 1 /\ worker = "gone" /\ pending = event
        <5>1. event.kind \in Terminal /\ 1 \in 1 .. Len(channel)
          BY <3>1, <3>4 DEF Terminal
        <5>. QED  BY <2>1, <3>1, <5>1 DEF OneTerminal
      <4>3. parsed = NBatches /\ Sound /\ OnTheWay = {}
        BY <2>1, <3>1, <3>4, <4>2, EventFacts DEF OneTerminal, Sound, OnTheWay, Queued, InHand, WorkerErrors
      <4>4. Len(returned) \in Nat /\ Len(returned) = NBatches
        BY <2>1, <4>3, BatchWorkerAssumption DEF InLine, WorkerTypeOK
      <4>5. StreamOutcome' = "eof"
        BY <4>1 DEF StreamOutcome, Released
      <4>6. Stream!End
        BY <2>1, <4>1, <4>4, <4>5 DEF Stream!End
      <4>. QED  BY <4>6 DEF Stream!Next
    <3>5. CASE event.kind \in WorkerErrors
      <4>1. worker_answer' = event.kind /\ UNCHANGED returned /\ reader' = "idle"
        BY <3>5 DEF WorkerErrors
      <4>. QED  BY <2>2, <3>5, <4>1 DEF StreamErrors
    <3>. QED  BY <3>1, <3>2, <3>3, <3>4, <3>5
  <2>. QED  BY <1>4, <2>3, <2>4 DEF Wait
<1>5. CASE Parse \/ ProbeReader \/ DeliverEvent \/ Vanish \/ Cancel \/ WorkerFinished \/ UNCHANGED streamVars
  <2>1. UNCHANGED <<reader, worker_answer, returned>>
    BY <1>5 DEF Parse, ParseBatch, ParseEnd, ParseFails, ProbeReader, DeliverEvent, Send, CheckToken, TrySend,
                SendTerminal, Vanish, Cancel, WorkerFinished, streamVars
  <2>. QED  BY <2>1, <1>1
<1>. QED  BY <1>2, <1>3, <1>4, <1>5 DEF WorkerNext

\* The reader of a background parser implements the stream it promises: the
\* batches in order, the end only after the last one, an error for ever.
THEOREM WorkerStreams == WorkerSpec => StreamSpec
<1>1. WorkerInit => Stream!Init
  BY DEF WorkerInit, Stream!Init, StreamOutcome, Released, StreamErrors, WorkerErrors
<1>. QED  BY <1>1, StreamStep, WorkerInvHolds, PTL DEF WorkerSpec, StreamSpec, Stream!Spec

-----------------------------------------------------------------------------
(* BudgetedRead: the sums over a sequence of batches *)

BatchRows(s)  == [i \in 1 .. Len(s) |-> s[i].rows]
BatchBytes(s) == [i \in 1 .. Len(s) |-> Accounted(s[i])]

\* The sums over a sequence of batches are naturals.
LEMMA BatchSums ==
  ASSUME NEW s \in Seq(Batches)
  PROVE  /\ Len(s) \in Nat
         /\ BatchRows(s) \in [1 .. Len(s) -> Nat] /\ RowsOf(s) \in Nat
         /\ BatchBytes(s) \in [1 .. Len(s) -> Nat] /\ BytesOf(s) \in Nat
<1>0. Len(s) \in Nat /\ \A i \in 1 .. Len(s) : s[i] \in Batches
  OBVIOUS
<1>1. ASSUME NEW b \in Batches PROVE b.rows \in Nat /\ Accounted(b) \in Nat
  <2>1. b.rows \in Nat /\ b.bytes \in Nat
    BY DEF Batches
  <2>. QED  BY <2>1, BudgetedReadAssumption DEF Accounted
<1>2. BatchRows(s) \in [1 .. Len(s) -> Nat] /\ BatchBytes(s) \in [1 .. Len(s) -> Nat]
  BY <1>0, <1>1 DEF BatchRows, BatchBytes
<1>3. Total(BatchRows(s), Len(s)) \in Nat /\ Total(BatchBytes(s), Len(s)) \in Nat
  BY <1>0, <1>2, TotalType
<1>. QED  BY <1>0, <1>2, <1>3 DEF RowsOf, BytesOf, BatchRows, BatchBytes

\* An empty queue leases nothing, ...
LEMMA BytesEmpty == BytesOf(<< >>) = 0
BY TotalEmpty DEF BytesOf

\* ... a batch queued adds its lease, ...
LEMMA BytesAppended ==
  ASSUME NEW s \in Seq(Batches), NEW b \in Batches
  PROVE  BytesOf(Append(s, b)) = BytesOf(s) + Accounted(b)
<1>. DEFINE n == Len(s)
            t == Append(s, b)
<1>1. /\ n \in Nat /\ Len(t) = n + 1 /\ t \in Seq(Batches)
      /\ \A i \in 1 .. n : t[i] = s[i]
      /\ t[n + 1] = b
  BY AppendIs
<1>. HIDE DEF n, t
<1>2. BatchBytes(t) \in [1 .. n + 1 -> Nat] /\ BatchBytes(s) \in [1 .. n -> Nat]
  BY <1>1, BatchSums DEF n
<1>3. (\A i \in 1 .. n : BatchBytes(t)[i] = BatchBytes(s)[i]) /\ BatchBytes(t)[n + 1] = Accounted(b)
  BY <1>1 DEF BatchBytes, n
<1>4. Total(BatchBytes(t), n + 1) = Total(BatchBytes(s), n) + Accounted(b)
  BY <1>1, <1>2, <1>3, TotalExtend
<1>. QED  BY <1>1, <1>4 DEF BytesOf, BatchBytes, n, t

\* ... and a batch taken off returns it.
LEMMA BytesTaken ==
  ASSUME NEW s \in Seq(Batches), s # << >>
  PROVE  BytesOf(s) = Accounted(Head(s)) + BytesOf(Tail(s))
<1>. DEFINE n == Len(s) - 1
            t == Tail(s)
<1>1. /\ n \in Nat /\ Len(s) = n + 1 /\ Len(t) = n /\ t \in Seq(Batches)
      /\ \A i \in 1 .. n : t[i] = s[i + 1]
      /\ Head(s) = s[1]
  BY TailIs
<1>. HIDE DEF n, t
<1>2. BatchBytes(s) \in [1 .. n + 1 -> Nat] /\ BatchBytes(t) \in [1 .. n -> Nat]
  BY <1>1, BatchSums
<1>3. (\A i \in 1 .. n : BatchBytes(t)[i] = BatchBytes(s)[i + 1]) /\ BatchBytes(s)[1] = Accounted(Head(s))
  BY <1>1 DEF BatchBytes
<1>4. Total(BatchBytes(s), n + 1) = Accounted(Head(s)) + Total(BatchBytes(t), n)
  BY <1>1, <1>2, <1>3, TotalShift
<1>. QED  BY <1>1, <1>4 DEF BytesOf, BatchBytes, t

\* The prefixes of a sequence, and their rows.
LEMMA PrefixIs ==
  ASSUME NEW s \in Seq(Batches), NEW k \in 0 .. Len(s)
  PROVE  /\ SubSeq(s, 1, k) \in Seq(Batches) /\ Len(SubSeq(s, 1, k)) = k
         /\ \A i \in 1 .. k : SubSeq(s, 1, k)[i] = s[i]
OBVIOUS

\* The longest prefix is the sequence.
LEMMA WholePrefix ==
  ASSUME NEW s \in Seq(Batches)
  PROVE  SubSeq(s, 1, Len(s)) = s
<1>1. /\ SubSeq(s, 1, Len(s)) \in Seq(Batches) /\ Len(SubSeq(s, 1, Len(s))) = Len(s)
      /\ \A i \in 1 .. Len(s) : SubSeq(s, 1, Len(s))[i] = s[i]
  BY PrefixIs
<1>. QED  BY <1>1

\* The rows of the prefixes, from none on.
LEMMA PrefixRows ==
  ASSUME NEW s \in Seq(Batches)
  PROVE  /\ RowsOf(SubSeq(s, 1, 0)) = 0
         /\ \A k \in 0 .. Len(s) : RowsOf(SubSeq(s, 1, k)) \in Nat
         /\ \A k \in 0 .. Len(s) - 1 :
              RowsOf(SubSeq(s, 1, k + 1)) = RowsOf(SubSeq(s, 1, k)) + s[k + 1].rows
<1>1. RowsOf(SubSeq(s, 1, 0)) = 0
  <2>1. Len(SubSeq(s, 1, 0)) = 0
    BY PrefixIs
  <2>. QED  BY <2>1, TotalEmpty DEF RowsOf
<1>2. \A k \in 0 .. Len(s) : RowsOf(SubSeq(s, 1, k)) \in Nat
  BY PrefixIs, BatchSums
<1>3. ASSUME NEW k \in 0 .. Len(s) - 1
      PROVE  RowsOf(SubSeq(s, 1, k + 1)) = RowsOf(SubSeq(s, 1, k)) + s[k + 1].rows
  <2>. DEFINE p == SubSeq(s, 1, k)
              q == SubSeq(s, 1, k + 1)
  <2>1. /\ k \in Nat /\ p \in Seq(Batches) /\ q \in Seq(Batches) /\ Len(p) = k /\ Len(q) = k + 1
        /\ \A i \in 1 .. k : q[i] = p[i]
        /\ q[k + 1] = s[k + 1]
    BY PrefixIs
  <2>. HIDE DEF p, q
  <2>2. BatchRows(q) \in [1 .. k + 1 -> Nat] /\ BatchRows(p) \in [1 .. k -> Nat]
    BY <2>1, BatchSums
  <2>3. (\A i \in 1 .. k : BatchRows(q)[i] = BatchRows(p)[i]) /\ BatchRows(q)[k + 1] = s[k + 1].rows
    BY <2>1 DEF BatchRows
  <2>4. Total(BatchRows(q), k + 1) = Total(BatchRows(p), k) + s[k + 1].rows
    BY <2>1, <2>2, <2>3, TotalExtend
  <2>. QED  BY <2>1, <2>4 DEF RowsOf, BatchRows, p, q
<1>. QED  BY <1>1, <1>2, <1>3

\* What Covered returns: the whole source, or its shortest prefix with the
\* rows asked for.
LEMMA CoveredIs ==
  ASSUME NEW s \in Seq(Batches), NEW n \in Nat \cup {NoLimit}
  PROVE  LET c == Covered(s, n) IN
         /\ c \in Seq(Batches) /\ Len(c) <= Len(s)
         /\ \A i \in 1 .. Len(c) : c[i] = s[i]
         /\ n # NoLimit => \A k \in 0 .. Len(c) - 1 : RowsOf(SubSeq(c, 1, k)) < n
         /\ Len(c) < Len(s) => n # NoLimit /\ RowsOf(c) >= n
<1>. DEFINE enough == {k \in 0 .. Len(s) : RowsOf(SubSeq(s, 1, k)) >= n}
<1>0. Len(s) \in Nat
  BY BatchSums
<1>1. \A k \in 0 .. Len(s) : RowsOf(SubSeq(s, 1, k)) \in Nat
  BY PrefixRows
<1>2. CASE n = NoLimit \/ enough = {}
  <2>1. Covered(s, n) = s
    BY <1>2 DEF Covered
  <2>2. n # NoLimit => \A k \in 0 .. Len(s) - 1 : RowsOf(SubSeq(s, 1, k)) < n
    BY <1>0, <1>1, <1>2
  <2>. QED  BY <2>1, <2>2
<1>3. CASE n # NoLimit /\ enough # {}
  <2>. DEFINE m == CHOOSE k \in enough : \A j \in enough : k <= j
  <2>1. m \in enough /\ \A j \in enough : m <= j
    <3>1. enough \subseteq Nat
      OBVIOUS
    <3>. HIDE DEF enough
    <3>. QED  BY <1>3, <3>1, LeastNatural
  <2>2. Covered(s, n) = SubSeq(s, 1, m)
    BY <1>3 DEF Covered
  <2>. HIDE DEF m
  <2>. DEFINE c == SubSeq(s, 1, m)
  <2>3. m \in 0 .. Len(s) /\ RowsOf(c) >= n
    BY <2>1
  <2>4. c \in Seq(Batches) /\ Len(c) = m /\ \A i \in 1 .. m : c[i] = s[i]
    BY <2>3, PrefixIs
  <2>5. ASSUME NEW k \in 0 .. m - 1 PROVE RowsOf(SubSeq(c, 1, k)) < n
    <3>1. k \in 0 .. Len(s) /\ k \in 0 .. Len(c) /\ ~(m <= k)
      BY <1>0, <2>3, <2>4
    <3>2. SubSeq(c, 1, k) = SubSeq(s, 1, k)
      <4>1. /\ SubSeq(c, 1, k) \in Seq(Batches) /\ Len(SubSeq(c, 1, k)) = k
            /\ SubSeq(s, 1, k) \in Seq(Batches) /\ Len(SubSeq(s, 1, k)) = k
            /\ \A i \in 1 .. k : SubSeq(c, 1, k)[i] = c[i] /\ SubSeq(s, 1, k)[i] = s[i]
        <5>. HIDE DEF c
        <5>. QED  BY <2>4, <3>1, PrefixIs
      <4>2. \A i \in 1 .. k : c[i] = s[i]
        BY <2>3, <2>4, <3>1
      <4>. HIDE DEF c
      <4>. QED  BY <4>1, <4>2
    <3>3. RowsOf(SubSeq(s, 1, k)) < n
      <4>. DEFINE r == RowsOf(SubSeq(s, 1, k))
      <4>1. k \notin enough
        BY <2>1, <3>1
      <4>2. r \in Nat /\ n \in Nat
        BY <1>1, <1>3, <3>1
      <4>3. ~(r >= n)
        BY <3>1, <4>1
      <4>. HIDE DEF r
      <4>4. r < n
        BY <4>2, <4>3
      <4>. QED  BY <4>4 DEF r
    <3>. HIDE DEF c
    <3>. QED  BY <3>2, <3>3
  <2>. HIDE DEF c
  <2>. QED  BY <1>3, <2>2, <2>3, <2>4, <2>5 DEF c
<1>. QED  BY <1>2, <1>3

-----------------------------------------------------------------------------
(* BudgetedRead: the invariant *)

\* The places of next_batch: a turn of the drain, the way out, a batch in hand.
Turning  == {"loop", "sized", "leased", "discarding", "pushing", "migrating", "writing", "turned"}
Leaving  == {"closing", "returning"}
Holding  == {"discarding", "pushing", "migrating", "writing"}

ReadTypeOK ==
  /\ inner \in Seq(Batches) /\ scan \in Seq(Batches) /\ limit \in Limits
  /\ stopped \in BOOLEAN
  /\ foreign \in [memory : Nat, spill : Nat]
  /\ at \in Turning \cup Leaving \cup {"idle", "sealing", "reading"}
  /\ after \in {"none", "turn", "eof"} \cup ReadErrors
  /\ wanted \in Nat /\ memory_lease \in Nat /\ batch \in Batches
  /\ tainted \in BOOLEAN /\ rows \in Nat /\ drained \in BOOLEAN
  /\ terminal_error \in {"none"} \cup ReadErrors
  /\ stage \in {"none", "memory", "writing", "replaying", "drained"}
  /\ queue \in Seq(Batches) /\ disk \in Seq(Batches) /\ file \in BOOLEAN
  /\ buffered \in Nat /\ written \in Nat /\ reserved \in Nat
  /\ delivered \in Seq(Batches)
  /\ answer \in {"none", "batch", "eof"} \cup ReadErrors

\* The memory: the lease is the batch's once it has arrived.
MemoryKept ==
  /\ BytesOf(queue) <= Threshold
  /\ FreeMemory >= 0
  /\ at \in Holding => memory_lease = Accounted(batch)
  /\ at \notin Holding \cup Leaving \cup {"leased"} => memory_lease = 0

\* The volume, and what each stage of the spool holds.
SpoolKept ==
  /\ written <= reserved /\ FreeSpill >= 0
  /\ stage \in {"none", "memory"} => disk = << >> /\ ~file /\ buffered = 0 /\ reserved = 0
  /\ stage \in {"none", "writing", "replaying"} => queue = << >>
  /\ stage = "drained" /\ at \notin {"migrating"} \cup Leaving =>
       queue = << >> /\ disk = << >> /\ ~file /\ buffered = 0 /\ reserved = 0
  /\ at = "returning" => disk = << >> /\ ~file /\ buffered = 0 /\ written = 0
  /\ at = "migrating" => stage = "drained"
  /\ at = "writing" => stage = "writing"
  /\ at = "sealing" => stage \in {"memory", "writing"}
  /\ at \in {"idle", "reading"} => stage # "writing"

\* How a call ends: the error kept is the one answered, and what answers EOF
\* or an error has closed the spool.
EndKept ==
  /\ at \in Leaving <=> after # "none"
  /\ after \in ReadErrors => terminal_error = after
  /\ after \in {"turn", "eof"} => terminal_error = "none" /\ drained
  /\ terminal_error # "none" => at \in Leaving \/ (at = "idle" /\ answer = terminal_error)
  /\ answer \in ReadErrors => at = "idle" /\ terminal_error = answer
  /\ answer = "eof" => drained /\ terminal_error \in {"none", "cancelled"}
                       /\ at \in Leaving \cup {"idle", "reading"}
  /\ answer \in {"eof"} \cup ReadErrors => stage \in {"none", "drained"}
  /\ ~drained => at \in Leaving \cup {"idle"} /\ stage = "none"

\* The drain of the source has begun, or will, and has not ended.
Draining == ~drained \/ at \in Turning \/ (at \in Leaving /\ after = "turn")

\* The batches kept so far.
Held == IF at \in {"pushing", "migrating", "writing"} THEN 1 ELSE 0
Kept == Len(delivered) + Len(disk) + Len(queue) + Held

ScanRows(k) == RowsOf(SubSeq(scan, 1, k))

\* The scan stops at the first batch that reaches the limit.
ScanIsShortest ==
  limit # NoLimit => \A k \in 0 .. Len(scan) - 1 : ScanRows(k) < limit

\* Until a violation or an error, what is kept is the scan, in order, from its
\* first batch on, ...
InPlace ==
  /\ Kept <= Len(scan)
  /\ \A i \in 1 .. Len(delivered) : delivered[i] = scan[i]
  /\ \A i \in 1 .. Len(disk) : disk[i] = scan[Len(delivered) + i]
  /\ \A i \in 1 .. Len(queue) : queue[i] = scan[Len(delivered) + Len(disk) + i]
  /\ Held = 1 => batch = scan[Kept]
  /\ rows = ScanRows(Kept) /\ rows <= MaxRows
  /\ \A i \in 1 .. Kept : scan[i].valid

\* ... what the source has left continues it, ...
Continues ==
  /\ delivered = << >>
  /\ Len(scan) <= Kept + Len(inner)
  /\ \A i \in 1 .. Len(inner) : Kept + i <= Len(scan) => inner[i] = scan[Kept + i]
  /\ Len(scan) < Kept + Len(inner) => limit # NoLimit /\ ScanRows(Len(scan)) >= limit
  /\ at \in {"loop", "sized", "leased"} => ~LimitReached
  /\ at # "migrating" => stage \in {"none", "memory", "writing"}

\* ... and the drain ends with the whole of it.
ScanKept ==
  /\ ScanIsShortest
  /\ terminal_error = "none" =>
       /\ tainted => Draining /\ drained
       /\ ~tainted => /\ InPlace
                      /\ IF Draining THEN Continues ELSE Kept = Len(scan)
       /\ Draining => answer = "none"
       /\ at = "discarding" \/ (at \in Leaving /\ after = "turn") => tainted
       /\ after = "eof" => disk = << >> /\ queue = << >>
       /\ stage = "none" => delivered = << >>

\* All of it, which the steps keep.
ReadInv == ReadTypeOK /\ MemoryKept /\ SpoolKept /\ EndKept /\ ScanKept

\* Before the first call.
LEMMA ReadInitHolds == ReadInit => ReadInv
<1>. SUFFICES ASSUME ReadInit PROVE ReadInv
  OBVIOUS
<1>. USE BudgetedReadAssumption DEF ReadInit
<1>1. inner \in Seq(Batches) /\ limit \in Nat \cup {NoLimit}
  OBVIOUS
<1>2. /\ scan \in Seq(Batches) /\ Len(scan) <= Len(inner)
      /\ \A i \in 1 .. Len(scan) : scan[i] = inner[i]
      /\ limit # NoLimit => \A k \in 0 .. Len(scan) - 1 : RowsOf(SubSeq(scan, 1, k)) < limit
      /\ Len(scan) < Len(inner) => limit # NoLimit /\ RowsOf(scan) >= limit
      /\ SubSeq(scan, 1, Len(scan)) = scan
      /\ RowsOf(SubSeq(scan, 1, 0)) = 0
  BY <1>1, CoveredIs, WholePrefix, PrefixRows
<1>3. ReadTypeOK
  <2>1. stopped \in BOOLEAN /\ tainted \in BOOLEAN /\ drained \in BOOLEAN /\ file \in BOOLEAN
    OBVIOUS
  <2>2. NoBatch \in Batches
    BY DEF NoBatch, Batches
  <2>. QED  BY <1>2, <2>1, <2>2 DEF ReadTypeOK
<1>4. MemoryKept
  <2>1. Threshold >= 0
    BY DEF Threshold, Greatest
  <2>. QED  BY <2>1, BytesEmpty DEF MemoryKept, FreeMemory, Holding, Leaving
<1>5. SpoolKept /\ EndKept
  BY DEF SpoolKept, EndKept, FreeSpill, Leaving, ReadErrors
<1>6. ScanKept
  <2>1. Len(delivered) = 0 /\ Len(disk) = 0 /\ Len(queue) = 0 /\ Held = 0 /\ Kept = 0
    BY DEF Held, Kept
  <2>2. Len(scan) \in Nat /\ Len(inner) \in Nat
    BY <1>1, <1>2
  <2>3. InPlace
    BY <1>2, <2>1, <2>2 DEF InPlace, ScanRows
  <2>4. Continues
    <3>1. delivered = << >> /\ Len(scan) <= Kept + Len(inner)
      BY <1>2, <2>1, <2>2
    <3>2. \A i \in 1 .. Len(inner) : Kept + i <= Len(scan) => inner[i] = scan[Kept + i]
      BY <1>2, <2>1, <2>2
    <3>3. Len(scan) < Kept + Len(inner) => limit # NoLimit /\ ScanRows(Len(scan)) >= limit
      <4>1. ScanRows(Len(scan)) = RowsOf(scan)
        BY <1>2 DEF ScanRows
      <4>2. Kept + Len(inner) = Len(inner)
        BY <2>1, <2>2
      <4>. HIDE DEF ReadInit
      <4>. QED  BY <1>2, <4>1, <4>2
    <3>. QED  BY <3>1, <3>2, <3>3 DEF Continues
  <2>. QED  BY <1>2, <2>3, <2>4 DEF ScanKept, ScanIsShortest, ScanRows, Draining, Leaving
<1>. QED  BY <1>3, <1>4, <1>5, <1>6 DEF ReadInv

-----------------------------------------------------------------------------
(* BudgetedRead: what keeps the parts of the invariant *)

\* n more bytes in the file are covered by the reservation, which stays within
\* what the other operations leave.
LEMMA PhysicalCovered ==
  ASSUME ReadTypeOK, SpoolKept, NEW n \in Nat, Physical(n), foreign' = foreign
  PROVE  /\ written' \in Nat /\ reserved' \in Nat
         /\ written' <= reserved' /\ FreeSpill' >= 0
<1>. USE BudgetedReadAssumption
<1>1. /\ written \in Nat /\ reserved \in Nat /\ foreign.spill \in Nat
      /\ FreeSpill = SpillCapacity - foreign.spill - reserved /\ FreeSpill >= 0
      /\ written <= reserved
  BY DEF ReadTypeOK, SpoolKept, FreeSpill
<1>. DEFINE missing == written + n - reserved
            chunk   == Greatest(missing, Chunk)
<1>2. missing \in Int /\ chunk \in Nat /\ chunk >= missing
  BY <1>1 DEF Greatest
<1>3. Reservation(n) \in {reserved, reserved + chunk, reserved + missing}
      /\ (Reservation(n) = reserved => missing <= 0)
      /\ (Reservation(n) # reserved => Reservation(n) - reserved <= FreeSpill /\ missing > 0)
  <2>1. Reservation(n) # NoQuota
    BY DEF Physical
  <2>2. Reservation(n) = IF missing <= 0 THEN reserved
                         ELSE IF stopped THEN NoQuota
                         ELSE IF chunk <= FreeSpill THEN reserved + chunk
                         ELSE IF missing <= FreeSpill THEN reserved + missing
                         ELSE NoQuota
    BY DEF Reservation
  <2>. HIDE DEF missing, chunk
  <2>. QED  BY <1>1, <1>2, <2>1, <2>2
<1>4. written' = written + n /\ reserved' = Reservation(n)
  BY DEF Physical
<1>. HIDE DEF chunk
<1>5. reserved' \in Nat /\ written' <= reserved' /\ reserved' - reserved <= FreeSpill
  BY <1>1, <1>2, <1>3, <1>4
<1>6. FreeSpill' = SpillCapacity - foreign.spill - reserved'
  BY DEF FreeSpill
<1>. QED  BY <1>1, <1>4, <1>5, <1>6

\* Batches that are kept as they are, whatever else the step does.
LEMMA ScanSame ==
  ASSUME ReadInv, UNCHANGED <<scan, limit>>,
         terminal_error' = "none" =>
           /\ terminal_error = "none"
           /\ UNCHANGED <<tainted, rows, inner, delivered, disk, queue, drained>>
           /\ Held' = Held /\ Draining' = Draining
           /\ (Held = 1 => UNCHANGED batch) /\ (Draining => UNCHANGED answer)
           /\ at' \in {"loop", "sized", "leased"} => tainted \/ ~LimitReached
           /\ at' = "discarding" \/ (at' \in Leaving /\ after' = "turn") => tainted
           /\ after' = "eof" => disk = << >> /\ queue = << >>
           /\ stage' = "none" => stage = "none"
           /\ Draining => \/ at' = "migrating" \/ stage' \in {"none", "memory", "writing"}
                          \/ at # "migrating" /\ stage' = stage
  PROVE  ScanKept'
<1>. USE DEF ReadInv
<1>1. ScanIsShortest'
  BY DEF ScanKept, ScanIsShortest, ScanRows
<1>2. ASSUME terminal_error' = "none", ~tainted
      PROVE  InPlace' /\ IF Draining' THEN Continues' ELSE Kept' = Len(scan')
  <2>1. Kept' = Kept
    BY <1>2 DEF Kept
  <2>2. InPlace'
    BY <1>2, <2>1 DEF ScanKept, InPlace, ScanRows
  <2>3. Draining => Continues'
    BY <1>2, <2>1 DEF ScanKept, Continues, ScanRows, LimitReached
  <2>. QED  BY <1>2, <2>1, <2>2, <2>3 DEF ScanKept
<1>. QED  BY <1>1, <1>2 DEF ScanKept

\* After a violation nothing is said of what is kept.
LEMMA ScanTainted ==
  ASSUME ReadInv, UNCHANGED <<scan, limit>>,
         /\ tainted' /\ Draining' /\ drained' /\ answer' = "none" /\ after' # "eof"
         /\ stage' = "none" => delivered' = << >>
  PROVE  ScanKept'
<1>1. ScanIsShortest'
  BY DEF ReadInv, ScanKept, ScanIsShortest, ScanRows
<1>. QED  BY <1>1 DEF ScanKept

\* An error ends the call from wherever it is.
LEMMA FailKeeps ==
  ASSUME ReadInv, NEW error \in ReadErrors, Fail(error),
         at \notin Leaving, terminal_error = "none", answer = "eof" => error = "cancelled",
         UNCHANGED <<envVars, callerVars, queue, fileVars, batch>>,
         memory_lease' \in {memory_lease, 0}, wanted' \in Nat,
         inner' \in Seq(Batches), rows' \in Nat, tainted' \in BOOLEAN,
         stage' = stage \/ (at = "pushing" /\ stage' = "drained")
  PROVE  ReadInv'
<1>. USE DEF ReadInv, Fail, envVars, callerVars, fileVars
<1>0. error # "none" /\ error # "turn" /\ error # "eof" /\ at' = "closing" /\ "closing" \in Leaving
  BY DEF ReadErrors, Leaving
<1>1. ReadTypeOK'
  <2>1. memory_lease' \in Nat /\ stage' \in {"none", "memory", "writing", "replaying", "drained"}
    BY DEF ReadTypeOK
  <2>. QED  BY <1>0, <2>1 DEF ReadTypeOK
<1>2. MemoryKept'
  <2>1. BytesOf(queue') = BytesOf(queue) /\ Threshold' = Threshold
    BY DEF Threshold
  <2>2. BytesOf(queue) \in Nat /\ memory_lease \in Nat /\ foreign.memory \in Nat
    BY BatchSums DEF ReadTypeOK
  <2>3. FreeMemory' >= 0
    BY <2>1, <2>2, BudgetedReadAssumption DEF MemoryKept, FreeMemory
  <2>. QED  BY <1>0, <2>1, <2>3 DEF MemoryKept, Holding
<1>3. SpoolKept'
  BY <1>0 DEF SpoolKept, FreeSpill
<1>4. EndKept'
  <2>1. answer \notin ReadErrors
    BY DEF EndKept, ReadErrors
  <2>2. ~drained => stage' = "none"
    BY DEF EndKept, Leaving
  <2>. QED  BY <1>0, <2>1, <2>2 DEF EndKept
<1>5. ScanKept'
  BY <1>0, ScanSame
<1>. QED  BY <1>1, <1>2, <1>3, <1>4, <1>5

\* A step that leaves the quota and the batches alone.
LEMMA PlaceKeeps ==
  ASSUME ReadInv, UNCHANGED <<envVars, callerVars, queue, fileVars, batch, terminal_error, rows, tainted, inner>>,
         terminal_error = "none", wanted' \in Nat, memory_lease' = 0 \/ UNCHANGED memory_lease,
         at \notin Leaving \cup {"idle", "migrating"}, drained,
         at' \in Turning \cup {"closing", "sealing", "reading"},
         at' \in Holding => UNCHANGED memory_lease /\ memory_lease = Accounted(batch),
         at' \notin Holding \cup Leaving \cup {"leased"} => memory_lease' = 0,
         at' # "reading" => answer # "eof",
         at' = "closing" => (after' = "turn" /\ tainted) \/ (after' = "eof" /\ disk = << >> /\ queue = << >>),
         at' \notin Leaving => after' = "none",
         stage' \in {"none", "memory", "writing", "replaying", "drained"}, stage' = stage,
         at' # "migrating", at' = "writing" => stage = "writing",
         at' = "sealing" => stage \in {"memory", "writing"}, at' = "reading" => stage # "writing",
         Held' = Held, Draining' = Draining,
         at' = "discarding" => tainted,
         at' \in {"loop", "sized", "leased"} => tainted \/ ~LimitReached
  PROVE  ReadInv'
<1>. USE DEF ReadInv, envVars, callerVars, fileVars
<1>1. ReadTypeOK'
  BY DEF ReadTypeOK, Leaving, Turning
<1>2. MemoryKept'
  <2>1. BytesOf(queue') = BytesOf(queue) /\ Threshold' = Threshold
    BY DEF Threshold
  <2>2. BytesOf(queue) \in Nat /\ memory_lease \in Nat /\ foreign.memory \in Nat
    BY BatchSums DEF ReadTypeOK
  <2>3. FreeMemory' >= 0
    BY <2>1, <2>2, BudgetedReadAssumption DEF MemoryKept, FreeMemory
  <2>. QED  BY <2>1, <2>3 DEF MemoryKept
<1>3. SpoolKept'
  BY DEF SpoolKept, FreeSpill, Leaving, Turning
<1>4. EndKept'
  BY DEF EndKept, Leaving, ReadErrors, Turning
<1>5. ScanKept'
  BY ScanSame DEF Leaving, Turning
<1>. QED  BY <1>1, <1>2, <1>3, <1>4, <1>5

-----------------------------------------------------------------------------
(* BudgetedRead: every step keeps the invariant *)

\* A call that drains the source has no error and no answer yet.
LEMMA RunningIs ==
  ASSUME ReadInv, at \notin Leaving \cup {"idle"}
  PROVE  /\ terminal_error = "none" /\ drained /\ after = "none"
         /\ answer \notin ReadErrors /\ (at # "reading" => answer # "eof")
         /\ at \in Turning => Draining
BY DEF ReadInv, EndKept, Leaving, ReadErrors, Draining

\* The memory of a turn is leased, or the source fails.
LEMMA LeasingKeeps ==
  ASSUME ReadInv, Size \/ LeaseMemory \/ SourceFails
  PROVE  ReadInv'
<1>. USE DEF scanVars, spoolVars, turnVars
<1>1. at \in {"loop", "sized", "leased"}
  BY DEF Size, LeaseMemory, SourceFails
<1>2. at \notin Leaving \cup {"idle"} /\ at \in Turning /\ at \notin Holding /\ Held = 0
  BY <1>1 DEF Leaving, Turning, Holding, Held
<1>3. /\ terminal_error = "none" /\ drained /\ after = "none" /\ answer # "eof" /\ Draining
      /\ ~tainted => ~LimitReached
      /\ at # "leased" => memory_lease = 0
      /\ FreeMemory \in Nat /\ Least(FreeMemory, BatchCap) \in Nat /\ wanted \in Nat
      /\ inner \in Seq(Batches) /\ rows \in Nat /\ tainted \in BOOLEAN /\ memory_lease \in Nat
      /\ stage \in {"none", "memory", "writing", "replaying", "drained"}
  <2>1. /\ terminal_error = "none" /\ drained /\ after = "none" /\ answer # "eof" /\ Draining
    BY <1>1, <1>2, RunningIs
  <2>2. ~tainted => ~LimitReached
    BY <1>1, <2>1 DEF ReadInv, ScanKept, Continues
  <2>3. at # "leased" => memory_lease = 0
    BY <1>2 DEF ReadInv, MemoryKept
  <2>4. BytesOf(queue) \in Nat /\ memory_lease \in Nat /\ foreign.memory \in Nat
    BY BatchSums DEF ReadInv, ReadTypeOK
  <2>5. FreeMemory \in Nat /\ Least(FreeMemory, BatchCap) \in Nat
    BY <2>4, BudgetedReadAssumption DEF ReadInv, MemoryKept, FreeMemory, Least
  <2>. QED  BY <2>1, <2>2, <2>3, <2>4, <2>5 DEF ReadInv, ReadTypeOK
<1>4. ASSUME NEW error \in ReadErrors, Fail(error), UNCHANGED <<memory_lease, batch, scanVars, spoolVars, callerVars, envVars>>,
             wanted' \in Nat
      PROVE  ReadInv'
  BY <1>2, <1>3, <1>4, FailKeeps
<1>5. ASSUME Size, GoTo("sized") PROVE ReadInv'
  <2>1. /\ UNCHANGED <<envVars, callerVars, queue, fileVars, batch, terminal_error, rows, tainted, inner>>
        /\ wanted' \in Nat /\ at' = "sized" /\ after' = "none" /\ UNCHANGED <<memory_lease, stage>>
    BY <1>3, <1>5 DEF Size, GoTo, Fail, ReadErrors
  <2>2. at = "loop" /\ Held' = Held /\ Draining' = Draining /\ "sized" \in Turning
    BY <1>2, <1>5, <2>1 DEF Size, Held, Draining, callerVars, Turning
  <2>. QED  BY <1>2, <1>3, <2>1, <2>2, PlaceKeeps DEF Holding, Leaving
<1>6. ASSUME LeaseMemory, memory_lease' = wanted, wanted <= FreeMemory, GoTo("leased") PROVE ReadInv'
  <2>1. /\ UNCHANGED <<envVars, callerVars, queue, fileVars, batch, terminal_error, rows, tainted, inner, stage>>
        /\ wanted' = 0 /\ at = "sized" /\ at' = "leased" /\ after' = "none"
    BY <1>3, <1>6 DEF LeaseMemory, GoTo
  <2>2. Held' = Held /\ Draining' = Draining
    BY <1>2, <2>1 DEF Held, Draining, callerVars, Turning
  <2>3. ReadTypeOK'
    BY <1>3, <1>6, <2>1 DEF ReadInv, ReadTypeOK, envVars, callerVars, fileVars, Turning
  <2>4. MemoryKept'
    <3>1. BytesOf(queue) \in Nat /\ foreign.memory \in Nat /\ BytesOf(queue)' = BytesOf(queue)
      BY <2>1, BatchSums DEF ReadInv, ReadTypeOK
    <3>2. memory_lease = 0 /\ foreign' = foreign
      BY <1>3, <2>1 DEF envVars
    <3>3. FreeMemory' >= 0
      BY <1>3, <1>6, <3>1, <3>2, BudgetedReadAssumption DEF FreeMemory
    <3>. QED  BY <2>1, <3>1, <3>3 DEF ReadInv, MemoryKept, Threshold, Holding
  <2>5. SpoolKept'
    BY <2>1 DEF ReadInv, SpoolKept, FreeSpill, Leaving, fileVars, envVars
  <2>6. EndKept'
    BY <1>3, <2>1 DEF ReadInv, EndKept, Leaving, callerVars, ReadErrors
  <2>7. ScanKept'
    BY <1>3, <2>1, <2>2, ScanSame DEF Leaving, callerVars, envVars, fileVars
  <2>. QED  BY <2>3, <2>4, <2>5, <2>6, <2>7 DEF ReadInv
<1>7. CASE Size
  <2>1. CASE stopped
    BY <1>3, <1>4, <1>7, <2>1 DEF Size, ReadErrors
  <2>2. CASE ~stopped /\ FreeMemory = 0
    BY <1>3, <1>4, <1>7, <2>2 DEF Size, ReadErrors
  <2>3. CASE ~stopped /\ FreeMemory # 0
    BY <1>5, <1>7, <2>3 DEF Size
  <2>. QED  BY <2>1, <2>2, <2>3
<1>8. CASE LeaseMemory
  <2>1. CASE stopped
    BY <1>4, <1>8, <2>1 DEF LeaseMemory, ReadErrors
  <2>2. CASE ~stopped /\ wanted > FreeMemory
    BY <1>4, <1>8, <2>2 DEF LeaseMemory, ReadErrors
  <2>3. CASE ~stopped /\ ~(wanted > FreeMemory)
    BY <1>3, <1>6, <1>8, <2>3 DEF LeaseMemory
  <2>. QED  BY <2>1, <2>2, <2>3
<1>9. CASE SourceFails
  BY <1>3, <1>4, <1>9 DEF SourceFails, ReadErrors
<1>. QED  BY <1>7, <1>8, <1>9

\* The whole of the scan is kept when the source ends or the limit is reached.
LEMMA ScanComplete ==
  ASSUME ReadInv, at \in {"leased", "turned"}, ~tainted, inner = << >> \/ LimitReached
  PROVE  Kept = Len(scan)
<1>. USE DEF ReadInv
<1>1. InPlace /\ Continues
  <2>1. terminal_error = "none" /\ Draining
    BY RunningIs DEF Leaving, Turning
  <2>. QED  BY <2>1 DEF ScanKept
<1>2. Kept \in Nat /\ Len(scan) \in Nat /\ Kept <= Len(scan) /\ limit \in Nat \cup {NoLimit}
  <2>1. Len(delivered) \in Nat /\ Len(disk) \in Nat /\ Len(queue) \in Nat /\ Held \in Nat
    BY BatchSums DEF ReadTypeOK, Held
  <2>2. Kept \in Nat /\ Kept <= Len(scan)
    BY <1>1, <2>1 DEF InPlace, Kept
  <2>3. Len(scan) \in Nat /\ limit \in Nat \cup {NoLimit}
    BY BatchSums, BudgetedReadAssumption DEF ReadTypeOK
  <2>. QED  BY <2>2, <2>3
<1>3. CASE inner = << >>
  <2>1. Len(inner) = 0
    BY <1>3
  <2>. QED  BY <1>1, <1>2, <2>1 DEF Continues
<1>4. CASE LimitReached
  <2>1. limit # NoLimit /\ rows >= limit /\ rows = ScanRows(Kept) /\ limit \in Nat
    BY <1>1, <1>2, <1>4 DEF InPlace, LimitReached
  <2>2. SUFFICES ASSUME Kept < Len(scan) PROVE FALSE
    BY <1>2
  <2>3. ScanRows(Kept) < limit
    BY <1>2, <2>1, <2>2 DEF ScanKept, ScanIsShortest
  <2>. QED  BY <2>1, <2>3 DEF ReadTypeOK
<1>. QED  BY <1>3, <1>4

\* The scan ends, rejected or sealed.
LEMMA EndKeeps ==
  ASSUME ReadInv, EndScan, at \in {"leased", "turned"}, inner = << >> \/ LimitReached,
         memory_lease' = 0, UNCHANGED <<wanted, batch, scanVars, spoolVars, callerVars, envVars>>
  PROVE  ReadInv'
<1>. USE DEF ReadInv, scanVars, spoolVars, callerVars, envVars, fileVars
<1>1. terminal_error = "none" /\ drained /\ answer # "eof" /\ answer \notin ReadErrors /\ after = "none" /\ Draining
      /\ at \notin Leaving \cup {"migrating"} /\ at \notin Leaving \cup {"idle"} /\ Held = 0
  <2>1. at \notin Leaving \cup {"idle", "migrating"} /\ at \in Turning /\ Held = 0
    BY DEF Leaving, Turning, Held
  <2>. QED  BY <2>1, RunningIs
<1>2. CASE tainted
  <2>1. Fail("rejected") /\ "rejected" \in ReadErrors
    BY <1>2 DEF EndScan, ReadErrors
  <2>2. wanted' \in Nat /\ inner' \in Seq(Batches) /\ rows' \in Nat /\ tainted' \in BOOLEAN
    BY DEF ReadTypeOK
  <2>. QED  BY <1>1, <2>1, <2>2, FailKeeps
<1>3. CASE ~tainted
  <2>1. /\ at' = IF stage = "none" THEN "reading" ELSE "sealing"
        /\ UNCHANGED <<after, terminal_error>>
    BY <1>3 DEF EndScan, GoTo
  <2>2. stage \in {"none", "memory", "writing"}
    BY <1>1, <1>3 DEF ScanKept, Continues
  <2>3. ReadTypeOK'
    BY <2>1 DEF ReadTypeOK
  <2>4. MemoryKept'
    <3>1. BytesOf(queue') = BytesOf(queue) /\ Threshold' = Threshold
      BY DEF Threshold
    <3>2. BytesOf(queue) \in Nat /\ memory_lease \in Nat /\ foreign.memory \in Nat
      BY BatchSums DEF ReadTypeOK
    <3>3. FreeMemory' >= 0
      BY <3>1, <3>2, BudgetedReadAssumption DEF MemoryKept, FreeMemory
    <3>. QED  BY <2>1, <3>1, <3>3 DEF MemoryKept, Holding
  <2>5. SpoolKept'
    BY <1>1, <2>1, <2>2 DEF SpoolKept, FreeSpill
  <2>6. EndKept'
    BY <1>1, <2>1 DEF EndKept, Leaving, ReadErrors
  <2>7. ScanKept'
    <3>1. Held' = 0 /\ Kept' = Kept /\ ~Draining'
      BY <1>1, <2>1 DEF Held, Kept, Draining, Turning, Leaving
    <3>2. Kept = Len(scan)
      BY <1>3, ScanComplete
    <3>3. ScanIsShortest'
      BY DEF ScanKept, ScanIsShortest, ScanRows
    <3>4. InPlace'
      BY <1>1, <1>3, <3>1 DEF ScanKept, InPlace, ScanRows
    <3>. QED  BY <1>1, <1>3, <2>1, <3>1, <3>2, <3>3, <3>4 DEF ScanKept, Leaving
  <2>. QED  BY <2>3, <2>4, <2>5, <2>6, <2>7
<1>. QED  BY <1>2, <1>3

\* A turn ends, or its batch is discarded, or the source is at its end.
LEMMA TurnKeeps ==
  ASSUME ReadInv, SourceEnds \/ EndTurn \/ Discard
  PROVE  ReadInv'
<1>1. CASE SourceEnds
  BY <1>1, EndKeeps DEF SourceEnds
<1>2. CASE EndTurn /\ LimitReached
  <2>1. memory_lease = 0
    BY <1>2 DEF EndTurn, ReadInv, MemoryKept, Holding, Leaving
  <2>. QED  BY <1>2, <2>1, EndKeeps DEF EndTurn, turnVars
<1>3. CASE EndTurn /\ ~LimitReached
  <2>1. at = "turned" /\ at' = "loop" /\ UNCHANGED <<after, terminal_error>>
        /\ UNCHANGED <<turnVars, scanVars, spoolVars, callerVars, envVars>>
    BY <1>3 DEF EndTurn, GoTo
  <2>2. terminal_error = "none" /\ drained /\ answer # "eof" /\ after = "none" /\ Draining
    BY <2>1, RunningIs DEF Leaving, Turning
  <2>3. Held' = Held /\ Draining' = Draining
    BY <2>1, <2>2 DEF Held, Draining, Turning, callerVars
  <2>4. memory_lease = 0 /\ wanted \in Nat /\ stage \in {"none", "memory", "writing", "replaying", "drained"}
    BY <2>1 DEF ReadInv, MemoryKept, Holding, Leaving, ReadTypeOK
  <2>. QED  BY <1>3, <2>1, <2>2, <2>3, <2>4, PlaceKeeps
            DEF Turning, Leaving, Holding, turnVars, scanVars, spoolVars
<1>4. CASE Discard
  <2>1. at = "discarding" /\ UNCHANGED <<wanted, scanVars, spoolVars, callerVars, envVars, terminal_error>>
    BY <1>4 DEF Discard, GoTo
  <2>2. terminal_error = "none" /\ drained /\ answer # "eof" /\ after = "none" /\ Draining
    BY <2>1, RunningIs DEF Leaving, Turning
  <2>3. tainted /\ Held = 0 /\ memory_lease = Accounted(batch) /\ NoBatch \in Batches
    BY <2>1, <2>2 DEF ReadInv, ScanKept, MemoryKept, Held, Holding, NoBatch, Batches
  <2>4. /\ UNCHANGED <<inner, tainted, rows, stage, queue, disk, file, buffered, written, reserved>>
        /\ UNCHANGED <<drained, delivered, answer, scan, limit, stopped, foreign>>
    BY <2>1 DEF scanVars, spoolVars, fileVars, callerVars, envVars
  <2>5. \/ stage = "none" /\ memory_lease' = 0 /\ batch' = NoBatch /\ at' = "turned" /\ after' = after
        \/ at' = "closing" /\ after' = "turn" /\ UNCHANGED <<memory_lease, batch>>
    BY <1>4 DEF Discard, GoTo
  <2>6. ReadTypeOK'
    BY <2>1, <2>3, <2>4, <2>5 DEF ReadInv, ReadTypeOK, Turning, Leaving
  <2>7. MemoryKept'
    <3>1. BytesOf(queue') = BytesOf(queue) /\ Threshold' = Threshold
      BY <2>4 DEF Threshold
    <3>2. BytesOf(queue) \in Nat /\ memory_lease \in Nat /\ foreign.memory \in Nat
      BY BatchSums DEF ReadInv, ReadTypeOK
    <3>3. FreeMemory' >= 0
      BY <2>4, <2>5, <3>1, <3>2, BudgetedReadAssumption DEF ReadInv, MemoryKept, FreeMemory
    <3>. QED  BY <2>5, <3>1, <3>3 DEF ReadInv, MemoryKept, Holding, Leaving
  <2>8. SpoolKept'
    BY <2>1, <2>4, <2>5 DEF ReadInv, SpoolKept, FreeSpill, Leaving
  <2>9. EndKept'
    BY <2>1, <2>2, <2>4, <2>5 DEF ReadInv, EndKept, Leaving, ReadErrors
  <2>10. ScanKept'
    <3>1. Draining' /\ after' # "eof" /\ answer = "none" /\ drained
      BY <2>2, <2>4, <2>5 DEF Draining, Turning, Leaving, ReadInv, ScanKept
    <3>2. stage = "none" => delivered = << >>
      BY <2>2 DEF ReadInv, ScanKept
    <3>. QED  BY <2>3, <2>4, <3>1, <3>2, ScanTainted
  <2>. QED  BY <2>6, <2>7, <2>8, <2>9, <2>10 DEF ReadInv
<1>. QED  BY <1>1, <1>2, <1>3, <1>4

\* A batch arrives: the next one of the scan.
LEMMA CheckKeeps ==
  ASSUME ReadInv, CheckBatch
  PROVE  ReadInv'
<1>. DEFINE b == Head(inner)
            n == Len(inner) - 1
<1>. USE DEF spoolVars, callerVars, envVars, fileVars
<1>1. at = "leased" /\ inner # << >> /\ inner' = Tail(inner)
      /\ UNCHANGED <<wanted, spoolVars, callerVars, envVars>>
  BY DEF CheckBatch
<1>2. /\ inner \in Seq(Batches) /\ inner' \in Seq(Batches) /\ n \in Nat /\ Len(inner) = n + 1 /\ Len(inner') = n
      /\ b = inner[1] /\ b \in Batches /\ \A i \in 1 .. n : inner'[i] = inner[i + 1]
  BY <1>1, TailIs DEF ReadInv, ReadTypeOK
<1>3. b.rows \in Nat /\ b.valid \in BOOLEAN /\ Accounted(b) \in Nat
  <2>1. b.rows \in Nat /\ b.bytes \in Nat /\ b.valid \in BOOLEAN
    BY <1>2 DEF Batches
  <2>. QED  BY <2>1, BudgetedReadAssumption DEF Accounted
<1>4. rows' = rows + b.rows /\ tainted' = (tainted \/ ~b.valid)
  BY DEF CheckBatch
<1>. HIDE DEF b, n
<1>5. terminal_error = "none" /\ drained /\ answer # "eof" /\ answer \notin ReadErrors /\ after = "none" /\ Draining
      /\ at \notin Leaving /\ Held = 0 /\ answer = "none"
  <2>1. at \notin Leaving \cup {"idle"} /\ at \in Turning /\ Held = 0
    BY <1>1 DEF Leaving, Turning, Held
  <2>. QED  BY <2>1, RunningIs DEF ReadInv, ScanKept
<1>6. wanted' \in Nat /\ rows' \in Nat /\ tainted' \in BOOLEAN
  BY <1>1, <1>3, <1>4 DEF ReadInv, ReadTypeOK
<1>7. CASE rows = MaxRows \/ b.rows > MaxRows - rows \/ Accounted(b) > memory_lease
  <2>1. Fail("limit") /\ UNCHANGED <<memory_lease, batch>> /\ "limit" \in ReadErrors
    BY <1>7 DEF CheckBatch, ReadErrors, b
  <2>. QED  BY <1>1, <1>2, <1>5, <1>6, <2>1, FailKeeps
<1>8. CASE ~(rows = MaxRows \/ b.rows > MaxRows - rows \/ Accounted(b) > memory_lease)
  <2>1. /\ memory_lease' = Accounted(b) /\ batch' = b
        /\ at' = (IF tainted' THEN "discarding" ELSE "pushing") /\ UNCHANGED <<after, terminal_error>>
    BY <1>8 DEF CheckBatch, GoTo, b
  <2>2. Accounted(b) <= memory_lease /\ rows + b.rows <= MaxRows
    BY <1>3, <1>8, BudgetedReadAssumption DEF ReadInv, ReadTypeOK
  <2>3. ReadTypeOK'
    BY <1>1, <1>2, <1>3, <1>6, <2>1 DEF ReadInv, ReadTypeOK, Turning
  <2>4. MemoryKept'
    <3>1. BytesOf(queue') = BytesOf(queue) /\ Threshold' = Threshold
      BY <1>1 DEF Threshold
    <3>2. BytesOf(queue) \in Nat /\ memory_lease \in Nat /\ foreign.memory \in Nat
      BY BatchSums DEF ReadInv, ReadTypeOK
    <3>3. FreeMemory' >= 0
      BY <1>1, <1>3, <2>1, <2>2, <3>1, <3>2, BudgetedReadAssumption DEF ReadInv, MemoryKept, FreeMemory
    <3>. QED  BY <2>1, <3>1, <3>3 DEF ReadInv, MemoryKept, Holding
  <2>5. SpoolKept'
    BY <1>1, <2>1 DEF ReadInv, SpoolKept, FreeSpill, Leaving
  <2>6. EndKept'
    BY <1>1, <1>5, <2>1 DEF ReadInv, EndKept, Leaving, ReadErrors
  <2>7. Draining' /\ at' # "migrating" /\ at' \notin {"loop", "sized", "leased"} /\ at' \notin Leaving
    BY <2>1 DEF Draining, Turning, Leaving
  <2>8. ASSUME tainted' PROVE ScanKept'
    <3>1. stage = "none" => delivered = << >>
      BY <1>5 DEF ReadInv, ScanKept
    <3>2. /\ UNCHANGED <<stage, delivered, scan, limit, answer, drained>> /\ after' = after
      BY <1>1, <2>1
    <3>. QED  BY <1>5, <2>7, <2>8, <3>1, <3>2, ScanTainted
  <2>9. ASSUME ~tainted' PROVE ScanKept'
    <3>1. ~tainted /\ b.valid /\ InPlace /\ Continues /\ at' = "pushing" /\ ScanIsShortest
      BY <1>3, <1>4, <1>5, <2>1, <2>9 DEF ReadInv, ScanKept
    <3>2. /\ Kept \in Nat /\ Len(scan) \in Nat /\ Kept <= Len(scan)
          /\ scan \in Seq(Batches)
      <4>1. Len(delivered) \in Nat /\ Len(disk) \in Nat /\ Len(queue) \in Nat /\ Held \in Nat
        BY <1>5, BatchSums DEF ReadInv, ReadTypeOK
      <4>2. Kept \in Nat /\ Kept <= Len(scan)
        BY <3>1, <4>1 DEF InPlace, Kept
      <4>. QED  BY <4>2, BatchSums DEF ReadInv, ReadTypeOK
    <3>3. Kept < Len(scan)
      <4>1. SUFFICES ASSUME Kept = Len(scan) PROVE FALSE
        BY <3>2
      <4>2. limit # NoLimit /\ ScanRows(Len(scan)) >= limit
        BY <1>2, <3>1, <3>2, <4>1 DEF Continues
      <4>3. ~LimitReached /\ rows = ScanRows(Kept)
        BY <1>1, <3>1 DEF Continues, InPlace
      <4>. QED  BY <4>1, <4>2, <4>3 DEF LimitReached
    <3>4. scan[Kept + 1] = b
      BY <1>2, <3>1, <3>2, <3>3 DEF Continues
    <3>5. Held' = 1 /\ Kept' = Kept + 1
      <4>1. Len(delivered) \in Nat /\ Len(disk) \in Nat /\ Len(queue) \in Nat
        BY BatchSums DEF ReadInv, ReadTypeOK
      <4>2. Held' = 1 /\ UNCHANGED <<delivered, disk, queue>>
        BY <1>1, <3>1 DEF Held
      <4>. QED  BY <1>5, <4>1, <4>2 DEF Kept
    <3>6. ScanRows(Kept + 1) = ScanRows(Kept) + b.rows
      <4>1. Kept \in 0 .. Len(scan) - 1
        BY <3>2, <3>3
      <4>. QED  BY <3>2, <3>4, <4>1, PrefixRows DEF ScanRows
    <3>7. scan' = scan /\ limit' = limit /\ ScanIsShortest'
      BY <1>1, <3>1 DEF ScanIsShortest, ScanRows
    <3>8. InPlace'
      <4>1. rows' = ScanRows(Kept)' /\ rows' <= MaxRows
        BY <1>4, <2>2, <3>1, <3>5, <3>6, <3>7 DEF InPlace, ScanRows
      <4>2. \A i \in 1 .. Kept' : scan'[i].valid
        BY <3>1, <3>2, <3>4, <3>5, <3>7 DEF InPlace
      <4>. QED  BY <1>1, <2>1, <3>1, <3>2, <3>3, <3>4, <3>5, <3>7, <4>1, <4>2 DEF InPlace
    <3>9. Continues'
      <4>1. delivered' = << >> /\ Len(scan') <= Kept' + Len(inner')
        BY <1>1, <1>2, <3>1, <3>2, <3>5, <3>7 DEF Continues
      <4>2. \A i \in 1 .. Len(inner') : Kept' + i <= Len(scan') => inner'[i] = scan'[Kept' + i]
        <5>1. ASSUME NEW i \in 1 .. n, Kept + 1 + i <= Len(scan) PROVE inner'[i] = scan[Kept + 1 + i]
          <6>1. i + 1 \in 1 .. Len(inner) /\ Kept + (i + 1) <= Len(scan) /\ Kept + (i + 1) = Kept + 1 + i
            <7>. HIDE DEF n
            <7>1. n \in Nat /\ i \in Nat /\ 1 <= i /\ i <= n /\ Len(inner) = n + 1 /\ Kept \in Nat /\ Len(scan) \in Nat
              BY <1>2, <3>2, <5>1
            <7>. QED  BY <5>1, <7>1
          <6>. QED  BY <1>2, <3>1, <6>1 DEF Continues
        <5>. QED  BY <1>2, <3>5, <3>7, <5>1
      <4>3. Len(scan') < Kept' + Len(inner') => limit' # NoLimit /\ ScanRows(Len(scan))' >= limit'
        <5>1. Kept' + Len(inner') = Kept + Len(inner)
          BY <1>2, <3>2, <3>5
        <5>. QED  BY <3>1, <3>7, <5>1 DEF Continues, ScanRows
      <4>. QED  BY <1>1, <2>7, <3>1, <4>1, <4>2, <4>3 DEF Continues
    <3>10. stage' = "none" => delivered' = << >>
      BY <1>1, <3>1 DEF Continues
    <3>11. Draining'
      BY <2>7
    <3>12. answer' = "none" /\ after' # "eof" /\ at' # "discarding" /\ at' \notin Leaving
      BY <1>1, <1>5, <2>1, <2>7, <3>1
    <3>. QED  BY <2>9, <3>7, <3>8, <3>9, <3>10, <3>11, <3>12 DEF ScanKept
  <2>. QED  BY <2>3, <2>4, <2>5, <2>6, <2>8, <2>9 DEF ReadInv
<1>. QED  BY <1>7, <1>8

\* A batch that moves inside the spool.
LEMMA ScanMoved ==
  ASSUME ReadInv, terminal_error = "none", Draining, Draining', after' # "eof", drained,
         UNCHANGED <<scan, limit, rows, tainted, inner, delivered, answer, drained>>,
         at' \notin {"loop", "sized", "leased", "discarding"} \cup Leaving,
         stage' = "none" => stage = "none",
         at' = "migrating" \/ stage' \in {"none", "memory", "writing"},
         ~tainted => Kept' = Kept /\ InPlace'
  PROVE  ScanKept'
<1>. USE DEF ReadInv
<1>1. ScanIsShortest'
  BY DEF ScanKept, ScanIsShortest, ScanRows
<1>2. ASSUME ~tainted PROVE Continues'
  BY <1>2 DEF ScanKept, Continues, ScanRows
<1>. QED  BY <1>1, <1>2 DEF ScanKept

\* The counts of the batches are naturals.
LEMMA Lengths ==
  ASSUME ReadTypeOK
  PROVE  /\ Len(delivered) \in Nat /\ Len(disk) \in Nat /\ Len(queue) \in Nat /\ Held \in {0, 1}
         /\ Len(scan) \in Nat /\ Kept \in Nat
         /\ BytesOf(queue) \in Nat /\ Threshold \in Nat
         /\ foreign.memory \in Nat /\ foreign.spill \in Nat
<1>1. /\ Len(delivered) \in Nat /\ Len(disk) \in Nat /\ Len(queue) \in Nat /\ Len(scan) \in Nat
      /\ BytesOf(queue) \in Nat
  BY BatchSums DEF ReadTypeOK
<1>2. Held \in {0, 1}
  BY DEF Held
<1>3. Threshold \in Nat
  BY BudgetedReadAssumption DEF Threshold, Greatest
<1>4. foreign.memory \in Nat /\ foreign.spill \in Nat
  BY DEF ReadTypeOK
<1>. QED  BY <1>1, <1>2, <1>3, <1>4 DEF Kept

\* The batch of the turn goes to the queue, to the file or nowhere.
LEMMA PushKeeps ==
  ASSUME ReadInv, PushMemory \/ PushRefused \/ StartMigration \/ PushDisk
  PROVE  ReadInv'
<1>. USE DEF ReadInv, turnVars, scanVars, callerVars, envVars
<1>1. /\ at = "pushing" /\ at \notin Leaving \cup {"idle"} /\ at \in Turning /\ at \in Holding /\ Held = 1
  BY DEF PushMemory, PushRefused, StartMigration, PushDisk, Leaving, Turning, Holding, Held
<1>2. /\ terminal_error = "none" /\ drained /\ after = "none" /\ Draining /\ answer # "eof" /\ answer \notin ReadErrors
      /\ batch \in Batches /\ memory_lease = Accounted(batch) /\ memory_lease \in Nat
  BY <1>1, RunningIs DEF MemoryKept, ReadTypeOK
<1>3. CASE PushMemory
  <2>1. /\ queue' = Append(queue, batch) /\ memory_lease' = 0 /\ batch' = NoBatch /\ at' = "turned"
        /\ after' = after /\ terminal_error' = terminal_error /\ stage' = "memory" /\ stage \in {"none", "memory"}
        /\ ~OverThreshold
        /\ UNCHANGED <<wanted, inner, tainted, rows, disk, file, buffered, written, reserved>>
        /\ UNCHANGED <<drained, delivered, answer, scan, limit, stopped, foreign>>
    BY <1>3 DEF PushMemory, GoTo, fileVars, InMemory
  <2>2. queue' \in Seq(Batches) /\ NoBatch \in Batches
        /\ Len(queue') = Len(queue) + 1 /\ queue'[Len(queue) + 1] = batch
        /\ \A i \in 1 .. Len(queue) : queue'[i] = queue[i]
    BY <1>2, <2>1, AppendIs DEF ReadTypeOK, NoBatch, Batches
  <2>3. ReadTypeOK'
    BY <2>1, <2>2 DEF ReadTypeOK, Turning
  <2>4. MemoryKept'
    <3>1. BytesOf(queue') = BytesOf(queue) + memory_lease /\ Threshold' = Threshold
      BY <1>2, <2>1, BytesAppended DEF ReadTypeOK, Threshold
    <3>2. BytesOf(queue') <= Threshold
      BY <1>2, <2>1, <3>1, Lengths DEF OverThreshold
    <3>3. FreeMemory' >= 0
      BY <1>2, <2>1, <3>1, Lengths, BudgetedReadAssumption DEF MemoryKept, FreeMemory
    <3>. QED  BY <2>1, <3>1, <3>2, <3>3 DEF MemoryKept, Holding
  <2>5. SpoolKept'
    BY <2>1 DEF SpoolKept, FreeSpill, Leaving
  <2>6. EndKept'
    BY <1>2, <2>1 DEF EndKept, Leaving, ReadErrors
  <2>7. Held' = 0 /\ Kept' = Kept
    BY <1>1, <2>1, <2>2, Lengths DEF Held, Kept
  <2>8. ASSUME ~tainted PROVE InPlace'
    <3>1. InPlace
      BY <1>2, <2>8 DEF ScanKept
    <3>2. \A i \in 1 .. Len(queue') : queue'[i] = scan[Len(delivered) + Len(disk) + i]
      <4>1. batch = scan[Len(delivered) + Len(disk) + (Len(queue) + 1)]
        BY <1>1, <3>1, Lengths DEF InPlace, Kept
      <4>2. ASSUME NEW i \in 1 .. Len(queue) PROVE queue'[i] = scan[Len(delivered) + Len(disk) + i]
        BY <2>2, <3>1 DEF InPlace
      <4>3. \A i \in 1 .. Len(queue') : i \in 1 .. Len(queue) \/ i = Len(queue) + 1
        BY <2>2, Lengths
      <4>. QED  BY <2>2, <4>1, <4>2, <4>3
    <3>. QED  BY <2>1, <2>7, <3>1, <3>2 DEF InPlace, ScanRows
  <2>9. ScanKept'
    <3>1. Draining' /\ at' \notin {"loop", "sized", "leased", "discarding"} \cup Leaving
      BY <2>1 DEF Draining, Turning, Leaving
    <3>. QED  BY <1>2, <2>1, <2>7, <2>8, <3>1, ScanMoved
  <2>. QED  BY <2>3, <2>4, <2>5, <2>6, <2>9
<1>4. CASE PushRefused
  <2>1. wanted' \in Nat /\ inner' \in Seq(Batches) /\ rows' \in Nat /\ tainted' \in BOOLEAN /\ "contract" \in ReadErrors
    BY <1>4 DEF PushRefused, ReadTypeOK, ReadErrors
  <2>. QED  BY <1>1, <1>2, <1>4, <2>1, FailKeeps DEF PushRefused, spoolVars
<1>5. CASE StartMigration
  <2>1. /\ stage' = "drained" /\ stage \in {"none", "memory"}
        /\ UNCHANGED <<wanted, memory_lease, batch, inner, tainted, rows, queue, disk, buffered, written, reserved>>
        /\ UNCHANGED <<drained, delivered, answer, scan, limit, stopped, foreign>>
    BY <1>5 DEF StartMigration, InMemory
  <2>2. CASE Fail("io") /\ UNCHANGED file
    <3>1. wanted' \in Nat /\ inner' \in Seq(Batches) /\ rows' \in Nat /\ tainted' \in BOOLEAN /\ "io" \in ReadErrors
      BY <2>1 DEF ReadTypeOK, ReadErrors
    <3>. QED  BY <1>1, <1>2, <2>1, <2>2, <3>1, FailKeeps DEF fileVars
  <2>3. CASE file' = TRUE /\ GoTo("migrating")
    <3>1. at' = "migrating" /\ file' \in BOOLEAN /\ UNCHANGED <<after, terminal_error>>
      <4>1. file' = TRUE
        BY <2>3
      <4>. QED  BY <2>3, <4>1 DEF GoTo
    <3>2. ReadTypeOK'
      BY <2>1, <3>1 DEF ReadTypeOK, Turning
    <3>3. MemoryKept'
      <4>1. BytesOf(queue') = BytesOf(queue) /\ Threshold' = Threshold /\ FreeMemory' = FreeMemory
        BY <2>1 DEF Threshold, FreeMemory
      <4>. QED  BY <1>2, <2>1, <3>1, <4>1 DEF MemoryKept, Accounted, Holding
    <3>4. SpoolKept'
      BY <2>1, <3>1 DEF SpoolKept, FreeSpill, Leaving
    <3>5. EndKept'
      BY <1>2, <2>1, <3>1 DEF EndKept, Leaving, ReadErrors
    <3>6. ScanKept'
      <4>1. Held' = Held /\ Draining' = Draining /\ at' \notin Leaving
        BY <1>1, <2>1, <3>1 DEF Held, Draining, Turning, Leaving
      <4>. QED  BY <1>2, <2>1, <3>1, <4>1, ScanSame
    <3>. QED  BY <3>2, <3>3, <3>4, <3>5, <3>6
  <2>. QED  BY <1>5, <2>2, <2>3 DEF StartMigration
<1>6. CASE PushDisk
  <2>1. /\ at' = "writing" /\ stage = "writing" /\ UNCHANGED <<after, terminal_error, spoolVars>>
        /\ UNCHANGED <<turnVars, scanVars, spoolVars, callerVars, envVars>>
    BY <1>6 DEF PushDisk, GoTo
  <2>2. Held' = Held /\ Draining' = Draining /\ wanted' \in Nat
    BY <1>1, <2>1 DEF Held, Draining, Turning, ReadTypeOK
  <2>. QED  BY <1>1, <1>2, <2>1, <2>2, PlaceKeeps DEF Holding, Leaving, Turning, spoolVars
<1>. QED  BY <1>3, <1>4, <1>5, <1>6

\* What the writer takes: the disk ends with the batch, and the volume stays
\* covered.
LEMMA Written ==
  ASSUME ReadInv, NEW b \in Batches, Write(b), foreign' = foreign
  PROVE  /\ buffered' \in Nat /\ written' \in Nat /\ reserved' \in Nat
         /\ written' <= reserved' /\ FreeSpill' >= 0
         /\ disk' \in Seq(Batches) /\ Len(disk') = Len(disk) + 1 /\ disk'[Len(disk) + 1] = b
         /\ \A i \in 1 .. Len(disk) : disk'[i] = disk[i]
<1>. USE DEF ReadInv
<1>1. b.bytes \in Nat /\ buffered \in Nat /\ disk \in Seq(Batches)
  BY DEF Batches, ReadTypeOK
<1>2. PICK n \in {0, buffered, buffered + b.bytes} :
        Physical(n) /\ buffered' = buffered + b.bytes - n /\ disk' = Append(disk, b)
  BY DEF Write
<1>3. n \in Nat /\ buffered' \in Nat
  BY <1>1, <1>2
<1>. QED  BY <1>1, <1>2, <1>3, PhysicalCovered, AppendIs

\* The queue is moved to the file.
LEMMA MigrateKeeps ==
  ASSUME ReadInv, Migrate \/ EndMigration
  PROVE  ReadInv'
<1>. USE DEF ReadInv, turnVars, scanVars, callerVars, envVars
<1>1. /\ at = "migrating" /\ at \notin Leaving \cup {"idle"} /\ at \in Turning /\ at \in Holding /\ Held = 1
  BY DEF Migrate, EndMigration, Leaving, Turning, Holding, Held
<1>2. /\ terminal_error = "none" /\ drained /\ after = "none" /\ Draining /\ answer # "eof" /\ answer \notin ReadErrors
      /\ batch \in Batches /\ memory_lease = Accounted(batch) /\ memory_lease \in Nat /\ stage = "drained"
  BY <1>1, RunningIs DEF MemoryKept, ReadTypeOK, SpoolKept
<1>3. ASSUME Migrate, stopped PROVE ReadInv'
  <2>1. wanted' \in Nat /\ inner' \in Seq(Batches) /\ rows' \in Nat /\ tainted' \in BOOLEAN /\ "cancelled" \in ReadErrors
    BY <1>3 DEF Migrate, ReadTypeOK, ReadErrors
  <2>. QED  BY <1>1, <1>2, <1>3, <2>1, FailKeeps DEF Migrate
<1>4. ASSUME Migrate, ~stopped PROVE ReadInv'
  <2>. DEFINE b == Head(queue)
  <2>1. /\ queue # << >> /\ queue' = Tail(queue) /\ Write(b) /\ at' = "migrating"
        /\ UNCHANGED <<after, terminal_error, file, wanted, memory_lease, batch, inner, tainted, rows, stage>>
        /\ UNCHANGED <<drained, delivered, answer, scan, limit, stopped, foreign>>
    BY <1>4 DEF Migrate, GoTo
  <2>2. /\ queue' \in Seq(Batches) /\ Len(queue) > 0 /\ Len(queue') = Len(queue) - 1
        /\ b = queue[1] /\ b \in Batches
        /\ \A i \in 1 .. Len(queue) - 1 : queue'[i] = queue[i + 1]
    BY <2>1, TailIs DEF ReadTypeOK
  <2>3. /\ buffered' \in Nat /\ written' \in Nat /\ reserved' \in Nat
        /\ written' <= reserved' /\ FreeSpill' >= 0
        /\ disk' \in Seq(Batches) /\ Len(disk') = Len(disk) + 1 /\ disk'[Len(disk) + 1] = b
        /\ \A i \in 1 .. Len(disk) : disk'[i] = disk[i]
    BY <2>1, <2>2, Written
  <2>4. BytesOf(queue) = Accounted(b) + BytesOf(queue')
    BY <2>1, BytesTaken DEF ReadTypeOK
  <2>. HIDE DEF b
  <2>5. ReadTypeOK'
    BY <1>1, <2>1, <2>2, <2>3 DEF ReadTypeOK
  <2>6. MemoryKept'
    <3>1. BytesOf(queue') \in Nat /\ Accounted(b) \in Nat
      <4>1. b.bytes \in Nat
        BY <2>2 DEF Batches
      <4>. QED  BY <2>2, <4>1, BatchSums, BudgetedReadAssumption DEF Accounted
    <3>2. BytesOf(queue') <= Threshold /\ Threshold' = Threshold
      BY <2>4, <3>1, Lengths DEF MemoryKept, Threshold
    <3>3. FreeMemory' >= 0
      <4>1. FreeMemory' = MemoryCapacity - foreign.memory - memory_lease - BytesOf(queue')
        BY <2>1 DEF FreeMemory
      <4>2. MemoryCapacity - foreign.memory - memory_lease - BytesOf(queue) >= 0
        BY DEF MemoryKept, FreeMemory
      <4>3. BytesOf(queue) \in Nat /\ foreign.memory \in Nat /\ memory_lease \in Nat /\ MemoryCapacity \in Nat
        BY <1>2, Lengths, BudgetedReadAssumption
      <4>4. BytesOf(queue') <= BytesOf(queue)
        BY <2>4, <3>1, <4>3
      <4>. QED  BY <3>1, <4>1, <4>2, <4>3, <4>4
    <3>. QED  BY <1>2, <2>1, <3>2, <3>3 DEF MemoryKept, Accounted, Holding
  <2>7. SpoolKept'
    BY <1>2, <2>1, <2>3 DEF SpoolKept
  <2>8. EndKept'
    BY <1>2, <2>1 DEF EndKept, Leaving, ReadErrors
  <2>9. Held' = 1 /\ Kept' = Kept
    <3>1. Held' = 1
      BY <2>1 DEF Held
    <3>. QED  BY <1>1, <2>1, <2>2, <2>3, <3>1, Lengths DEF Kept
  <2>10. ASSUME ~tainted PROVE InPlace'
    <3>1. InPlace
      BY <1>2, <2>10 DEF ScanKept
    <3>2. \A i \in 1 .. Len(disk') : disk'[i] = scan[Len(delivered) + i]
      <4>1. b = scan[Len(delivered) + (Len(disk) + 1)]
        <5>1. 1 \in 1 .. Len(queue)
          BY <2>2, Lengths
        <5>. QED  BY <2>2, <3>1, <5>1, Lengths DEF InPlace
      <4>2. ASSUME NEW i \in 1 .. Len(disk) PROVE disk'[i] = scan[Len(delivered) + i]
        BY <2>3, <3>1 DEF InPlace
      <4>3. \A i \in 1 .. Len(disk') : i \in 1 .. Len(disk) \/ i = Len(disk) + 1
        BY <2>3, Lengths
      <4>. QED  BY <2>3, <4>1, <4>2, <4>3
    <3>3. \A i \in 1 .. Len(queue') : queue'[i] = scan[Len(delivered) + Len(disk') + i]
      <4>1. ASSUME NEW i \in 1 .. Len(queue') PROVE queue'[i] = scan[Len(delivered) + Len(disk') + i]
        <5>1. /\ i \in 1 .. Len(queue) - 1 /\ i + 1 \in 1 .. Len(queue)
              /\ Len(delivered) + Len(disk) + (i + 1) = Len(delivered) + Len(disk') + i
          BY <2>2, <2>3, Lengths
        <5>. QED  BY <2>2, <3>1, <5>1 DEF InPlace
      <4>. QED  BY <4>1
    <3>. QED  BY <1>1, <2>1, <2>9, <3>1, <3>2, <3>3 DEF InPlace, ScanRows
  <2>11. ScanKept'
    <3>1. Draining' /\ at' \notin {"loop", "sized", "leased", "discarding"} \cup Leaving
      BY <2>1 DEF Draining, Turning, Leaving
    <3>. QED  BY <1>2, <2>1, <2>9, <2>10, <3>1, ScanMoved
  <2>. QED  BY <2>5, <2>6, <2>7, <2>8, <2>11
<1>5. CASE EndMigration
  <2>1. /\ queue = << >> /\ stage' = "writing" /\ at' = "writing"
        /\ UNCHANGED <<after, terminal_error, wanted, memory_lease, batch, inner, tainted, rows, queue>>
        /\ UNCHANGED <<disk, file, buffered, written, reserved>>
        /\ UNCHANGED <<drained, delivered, answer, scan, limit, stopped, foreign>>
    BY <1>5 DEF EndMigration, GoTo, fileVars
  <2>2. ReadTypeOK'
    BY <2>1 DEF ReadTypeOK, Turning
  <2>3. MemoryKept'
    <4>1. BytesOf(queue') = BytesOf(queue) /\ Threshold' = Threshold /\ FreeMemory' = FreeMemory
      BY <2>1 DEF Threshold, FreeMemory
    <4>. QED  BY <1>2, <2>1, <4>1 DEF MemoryKept, Accounted, Holding
  <2>4. SpoolKept'
    BY <2>1 DEF SpoolKept, FreeSpill, Leaving
  <2>5. EndKept'
    BY <1>2, <2>1 DEF EndKept, Leaving, ReadErrors
  <2>6. ScanKept'
    <3>1. Held' = Held /\ Draining' = Draining /\ at' \notin Leaving
      BY <1>1, <2>1 DEF Held, Draining, Turning, Leaving
    <3>. QED  BY <1>2, <2>1, <3>1, ScanSame
  <2>. QED  BY <2>2, <2>3, <2>4, <2>5, <2>6
<1>. QED  BY <1>3, <1>4, <1>5

\* A batch goes to the file, or a write fails.
LEMMA WritingKeeps ==
  ASSUME ReadInv, WriteBatch \/ WriteFails
  PROVE  ReadInv'
<1>. USE DEF ReadInv, turnVars, scanVars, callerVars, envVars
<1>1. CASE WriteBatch
  <2>1. /\ at = "writing" /\ at' = "turned" /\ Write(batch) /\ memory_lease' = 0 /\ batch' = NoBatch
        /\ UNCHANGED <<after, terminal_error, wanted, file, queue, inner, tainted, rows, stage>>
        /\ UNCHANGED <<drained, delivered, answer, scan, limit, stopped, foreign>>
    BY <1>1 DEF WriteBatch, GoTo
  <2>2. /\ terminal_error = "none" /\ drained /\ after = "none" /\ Draining /\ answer # "eof" /\ answer \notin ReadErrors
        /\ batch \in Batches /\ NoBatch \in Batches /\ memory_lease \in Nat /\ stage = "writing" /\ Held = 1
        /\ queue = << >>
    BY <2>1, RunningIs DEF ReadTypeOK, SpoolKept, Leaving, Turning, Held, NoBatch, Batches
  <2>3. /\ buffered' \in Nat /\ written' \in Nat /\ reserved' \in Nat
        /\ written' <= reserved' /\ FreeSpill' >= 0
        /\ disk' \in Seq(Batches) /\ Len(disk') = Len(disk) + 1 /\ disk'[Len(disk) + 1] = batch
        /\ \A i \in 1 .. Len(disk) : disk'[i] = disk[i]
    BY <2>1, <2>2, Written
  <2>4. ReadTypeOK'
    BY <2>1, <2>2, <2>3 DEF ReadTypeOK, Turning
  <2>5. MemoryKept'
    <3>1. BytesOf(queue') = BytesOf(queue) /\ Threshold' = Threshold
      BY <2>1 DEF Threshold
    <3>2. FreeMemory' >= 0
      BY <2>1, <2>2, <3>1, Lengths, BudgetedReadAssumption DEF MemoryKept, FreeMemory
    <3>. QED  BY <2>1, <3>1, <3>2 DEF MemoryKept, Holding
  <2>6. SpoolKept'
    BY <2>1, <2>2, <2>3 DEF SpoolKept, Leaving
  <2>7. EndKept'
    BY <2>1, <2>2 DEF EndKept, Leaving, ReadErrors
  <2>8. Held' = 0 /\ Kept' = Kept
    <3>1. Held' = 0
      BY <2>1 DEF Held
    <3>. QED  BY <2>1, <2>2, <2>3, <3>1, Lengths DEF Kept
  <2>9. ASSUME ~tainted PROVE InPlace'
    <3>1. InPlace
      BY <2>2, <2>9 DEF ScanKept
    <3>2. \A i \in 1 .. Len(disk') : disk'[i] = scan[Len(delivered) + i]
      <4>1. batch = scan[Len(delivered) + (Len(disk) + 1)]
        <5>1. Len(queue) = 0
          BY <2>2
        <5>. QED  BY <2>2, <3>1, <5>1, Lengths DEF InPlace, Kept
      <4>2. ASSUME NEW i \in 1 .. Len(disk) PROVE disk'[i] = scan[Len(delivered) + i]
        BY <2>3, <3>1 DEF InPlace
      <4>3. \A i \in 1 .. Len(disk') : i \in 1 .. Len(disk) \/ i = Len(disk) + 1
        BY <2>3, Lengths
      <4>. QED  BY <2>3, <4>1, <4>2, <4>3
    <3>. QED  BY <2>1, <2>2, <2>8, <3>1, <3>2 DEF InPlace, ScanRows
  <2>10. ScanKept'
    <3>1. Draining' /\ at' \notin {"loop", "sized", "leased", "discarding"} \cup Leaving
      BY <2>1 DEF Draining, Turning, Leaving
    <3>. QED  BY <2>1, <2>2, <2>8, <2>9, <3>1, ScanMoved
  <2>. QED  BY <2>4, <2>5, <2>6, <2>7, <2>10
<1>2. CASE WriteFails
  <2>1. /\ at \in {"migrating", "writing", "sealing"} /\ (Fail("io") \/ Fail("limit"))
        /\ UNCHANGED <<turnVars, scanVars, spoolVars, callerVars, envVars>>
    BY <1>2 DEF WriteFails
  <2>2. at \notin Leaving \cup {"idle"} /\ {"io", "limit"} \subseteq ReadErrors
    BY <2>1 DEF Leaving, ReadErrors
  <2>3. wanted' \in Nat /\ inner' \in Seq(Batches) /\ rows' \in Nat /\ tainted' \in BOOLEAN
    BY <2>1 DEF ReadTypeOK
  <2>4. terminal_error = "none" /\ answer # "eof"
    BY <2>1, <2>2, RunningIs
  <2>. QED  BY <2>1, <2>2, <2>3, <2>4, FailKeeps DEF spoolVars
<1>. QED  BY <1>1, <1>2

\* The spool is sealed.
LEMMA SealKeeps ==
  ASSUME ReadInv, Seal
  PROVE  ReadInv'
<1>. USE DEF ReadInv, turnVars, scanVars, callerVars, envVars
<1>1. /\ at = "sealing" /\ at' = "reading"
      /\ UNCHANGED <<after, terminal_error, wanted, memory_lease, batch, inner, tainted, rows, queue, disk, file>>
      /\ UNCHANGED <<drained, delivered, answer, scan, limit, stopped, foreign>>
  BY DEF Seal, GoTo, spoolVars, fileVars
<1>2. /\ terminal_error = "none" /\ drained /\ after = "none" /\ answer # "eof" /\ answer \notin ReadErrors
      /\ stage \in {"memory", "writing"} /\ memory_lease = 0 /\ ~Draining /\ ~Draining' /\ Held = 0 /\ Held' = 0
  BY <1>1, RunningIs DEF SpoolKept, MemoryKept, Leaving, Turning, Holding, Held, Draining
<1>3. CASE stage = "memory"
  <2>1. UNCHANGED spoolVars /\ wanted' \in Nat
    BY <1>1, <1>3 DEF Seal, ReadTypeOK
  <2>2. Draining' = Draining
    BY <1>1 DEF Draining, Turning, Leaving
  <2>3. at \notin Leaving \cup {"idle", "migrating"} /\ at' \notin Holding \cup Leaving \cup {"leased"}
    BY <1>1 DEF Leaving, Holding
  <2>. QED  BY <1>1, <1>2, <1>3, <2>1, <2>2, <2>3, PlaceKeeps DEF spoolVars, Leaving
<1>4. CASE stage = "writing"
  <2>1. Physical(buffered) /\ buffered' = 0 /\ stage' = "replaying" /\ queue = << >>
    BY <1>4 DEF Seal, SpoolKept
  <2>2. written' \in Nat /\ reserved' \in Nat /\ written' <= reserved' /\ FreeSpill' >= 0
    <3>1. buffered \in Nat
      BY DEF ReadTypeOK
    <3>. QED  BY <1>1, <2>1, <3>1, PhysicalCovered
  <2>3. ReadTypeOK'
    BY <1>1, <2>1, <2>2 DEF ReadTypeOK
  <2>4. MemoryKept'
    <3>1. BytesOf(queue') = BytesOf(queue) /\ Threshold' = Threshold /\ FreeMemory' = FreeMemory
      BY <1>1 DEF Threshold, FreeMemory
    <3>. QED  BY <1>1, <1>2, <3>1 DEF MemoryKept, Holding
  <2>5. SpoolKept'
    BY <1>1, <2>1, <2>2 DEF SpoolKept, Leaving
  <2>6. EndKept'
    BY <1>1, <1>2 DEF EndKept, Leaving, ReadErrors
  <2>7. ScanKept'
    <3>1. ~tainted
      BY <1>2 DEF ScanKept
    <3>2. Kept' = Kept /\ InPlace /\ Kept = Len(scan)
      BY <1>1, <1>2, <3>1 DEF ScanKept, Kept
    <3>3. InPlace' /\ ScanIsShortest'
      BY <1>1, <1>2, <3>2 DEF InPlace, ScanRows, ScanKept, ScanIsShortest
    <3>. QED  BY <1>1, <1>2, <2>1, <3>1, <3>2, <3>3 DEF ScanKept, Leaving
  <2>. QED  BY <2>3, <2>4, <2>5, <2>6, <2>7
<1>. QED  BY <1>2, <1>3, <1>4

\* The answers of the replay.
LEMMA AnswerKeeps ==
  ASSUME ReadInv, at = "reading", stage \in {"none", "drained"}, answer' = "eof", GoTo("idle"),
         UNCHANGED <<drained, delivered, spoolVars, turnVars, scanVars, envVars>>
  PROVE  ReadInv'
<1>. USE DEF ReadInv, spoolVars, turnVars, scanVars, envVars, fileVars
<1>1. /\ terminal_error = "none" /\ drained /\ after = "none" /\ answer \notin ReadErrors
      /\ at' = "idle" /\ UNCHANGED <<after, terminal_error>>
      /\ at \notin Leaving /\ at' \notin Leaving /\ ~Draining /\ Draining' = Draining /\ Held = 0 /\ Held' = 0
  BY RunningIs DEF Leaving, Turning, Held, Draining, GoTo
<1>2. ReadTypeOK'
  BY <1>1 DEF ReadTypeOK
<1>3. MemoryKept'
  <2>1. BytesOf(queue') = BytesOf(queue) /\ Threshold' = Threshold /\ FreeMemory' = FreeMemory
    BY DEF Threshold, FreeMemory
  <2>. QED  BY <1>1, <2>1 DEF MemoryKept, Holding, Leaving
<1>4. SpoolKept'
  BY <1>1 DEF SpoolKept, FreeSpill, Leaving
<1>5. EndKept'
  BY <1>1 DEF EndKept, ReadErrors
<1>6. ScanKept'
  BY <1>1, ScanSame
<1>. QED  BY <1>2, <1>3, <1>4, <1>5, <1>6

\* A batch of the spool is delivered: the next one of the scan.
LEMMA DeliverKeeps ==
  ASSUME ReadInv, at = "reading", GoTo("idle"), NEW b \in Batches, Deliver(b),
         UNCHANGED <<turnVars, scanVars, envVars, stage, file, buffered, written, reserved>>,
         \/ stage = "memory" /\ queue # << >> /\ b = Head(queue) /\ queue' = Tail(queue) /\ disk' = disk
         \/ stage = "replaying" /\ disk # << >> /\ b = Head(disk) /\ disk' = Tail(disk) /\ queue' = queue
  PROVE  ReadInv'
<1>. USE DEF ReadInv, turnVars, scanVars, envVars
<1>1. /\ terminal_error = "none" /\ drained /\ after = "none" /\ answer \notin ReadErrors
      /\ at' = "idle" /\ answer' = "batch" /\ UNCHANGED <<after, terminal_error, drained>>
      /\ at \notin Leaving /\ at' \notin Leaving /\ ~Draining /\ ~Draining' /\ Held = 0 /\ Held' = 0
      /\ ~tainted
  BY RunningIs DEF Leaving, Turning, Held, Draining, GoTo, Deliver, ScanKept
<1>2. /\ delivered' \in Seq(Batches) /\ Len(delivered') = Len(delivered) + 1 /\ delivered'[Len(delivered) + 1] = b
      /\ \A i \in 1 .. Len(delivered) : delivered'[i] = delivered[i]
  BY AppendIs DEF Deliver, ReadTypeOK
<1>3. CASE stage = "memory"
  <2>1. /\ queue' \in Seq(Batches) /\ Len(queue) > 0 /\ Len(queue') = Len(queue) - 1
        /\ b = queue[1] /\ \A i \in 1 .. Len(queue) - 1 : queue'[i] = queue[i + 1]
        /\ disk = << >> /\ disk' = << >> /\ Len(disk) = 0
    <3>1. /\ queue \in Seq(Batches) /\ queue # << >> /\ b = Head(queue) /\ queue' = Tail(queue)
          /\ disk' = disk /\ disk = << >>
      BY <1>3 DEF ReadTypeOK, SpoolKept
    <3>. HIDE DEF ReadInv
    <3>. QED  BY <3>1, TailIs
  <2>2. BytesOf(queue') \in Nat /\ BytesOf(queue) \in Nat /\ BytesOf(queue') <= BytesOf(queue)
    <3>1. BytesOf(queue) = Accounted(b) + BytesOf(queue')
      BY <1>3, BytesTaken DEF ReadTypeOK
    <3>2. b.bytes \in Nat
      BY DEF Batches
    <3>3. Accounted(b) \in Nat
      BY <3>2, BudgetedReadAssumption DEF Accounted
    <3>4. BytesOf(queue') \in Nat
      BY <2>1, BatchSums
    <3>. QED  BY <3>1, <3>3, <3>4
  <2>3. ReadTypeOK'
    BY <1>1, <1>2, <2>1 DEF ReadTypeOK
  <2>4. MemoryKept'
    <3>1. FreeMemory' >= 0
      <4>1. FreeMemory' = MemoryCapacity - foreign.memory - memory_lease - BytesOf(queue')
        BY DEF FreeMemory
      <4>2. MemoryCapacity - foreign.memory - memory_lease - BytesOf(queue) >= 0
        BY DEF MemoryKept, FreeMemory
      <4>3. foreign.memory \in Nat /\ memory_lease \in Nat /\ MemoryCapacity \in Nat
        BY Lengths, BudgetedReadAssumption DEF ReadTypeOK
      <4>. QED  BY <2>2, <4>1, <4>2, <4>3
    <3>2. BytesOf(queue') <= Threshold'
      BY <2>2, Lengths DEF MemoryKept, Threshold
    <3>. QED  BY <1>1, <3>1, <3>2 DEF MemoryKept, Holding, Leaving
  <2>5. SpoolKept'
    BY <1>1, <1>3, <2>1 DEF SpoolKept, FreeSpill, Leaving
  <2>6. EndKept'
    BY <1>1, <1>3 DEF EndKept, ReadErrors
  <2>7. ScanKept'
    <3>1. InPlace /\ Kept = Len(scan)
      BY <1>1 DEF ScanKept
    <3>2. Kept' = Kept
      BY <1>1, <1>2, <2>1, Lengths DEF Kept
    <3>3. InPlace'
      <4>1. b = scan[Len(delivered) + 1]
        <5>1. 1 \in 1 .. Len(queue) /\ Len(delivered) + Len(disk) + 1 = Len(delivered) + 1
          BY <2>1, Lengths
        <5>. QED  BY <2>1, <3>1, <5>1 DEF InPlace
      <4>2. \A i \in 1 .. Len(delivered') : delivered'[i] = scan[i]
        <5>1. ASSUME NEW i \in 1 .. Len(delivered) PROVE delivered'[i] = scan[i]
          BY <1>2, <3>1 DEF InPlace
        <5>2. \A i \in 1 .. Len(delivered') : i \in 1 .. Len(delivered) \/ i = Len(delivered) + 1
          BY <1>2, Lengths
        <5>. QED  BY <1>2, <4>1, <5>1, <5>2
      <4>3. ASSUME NEW i \in 1 .. Len(queue') PROVE queue'[i] = scan[Len(delivered') + Len(disk') + i]
        <5>1. /\ i \in 1 .. Len(queue) - 1 /\ i + 1 \in 1 .. Len(queue)
              /\ Len(delivered) + Len(disk) + (i + 1) = Len(delivered') + Len(disk') + i
          BY <1>2, <2>1, Lengths
        <5>. QED  BY <2>1, <3>1, <5>1 DEF InPlace
      <4>. QED  BY <1>1, <2>1, <3>1, <3>2, <4>2, <4>3 DEF InPlace, ScanRows
    <3>4. ScanIsShortest'
      BY DEF ScanKept, ScanIsShortest, ScanRows
    <3>. QED  BY <1>1, <1>3, <3>1, <3>2, <3>3, <3>4 DEF ScanKept
  <2>. QED  BY <2>3, <2>4, <2>5, <2>6, <2>7
<1>4. CASE stage = "replaying"
  <2>1. /\ disk' \in Seq(Batches) /\ Len(disk) > 0 /\ Len(disk') = Len(disk) - 1
        /\ b = disk[1] /\ \A i \in 1 .. Len(disk) - 1 : disk'[i] = disk[i + 1]
        /\ queue = << >> /\ queue' = << >> /\ Len(queue) = 0
    <3>1. /\ disk \in Seq(Batches) /\ disk # << >> /\ b = Head(disk) /\ disk' = Tail(disk)
          /\ queue' = queue /\ queue = << >>
      BY <1>4 DEF ReadTypeOK, SpoolKept
    <3>. HIDE DEF ReadInv
    <3>. QED  BY <3>1, TailIs
  <2>2. ReadTypeOK'
    BY <1>1, <1>2, <2>1 DEF ReadTypeOK
  <2>3. MemoryKept'
    <3>1. BytesOf(queue') = BytesOf(queue) /\ Threshold' = Threshold /\ FreeMemory' = FreeMemory
      BY <2>1 DEF Threshold, FreeMemory
    <3>. QED  BY <1>1, <3>1 DEF MemoryKept, Holding, Leaving
  <2>4. SpoolKept'
    BY <1>1, <1>4, <2>1 DEF SpoolKept, FreeSpill, Leaving
  <2>5. EndKept'
    BY <1>1, <1>4 DEF EndKept, ReadErrors
  <2>6. ScanKept'
    <3>1. InPlace /\ Kept = Len(scan)
      BY <1>1 DEF ScanKept
    <3>2. Kept' = Kept
      BY <1>1, <1>2, <2>1, Lengths DEF Kept
    <3>3. InPlace'
      <4>1. b = scan[Len(delivered) + 1]
        <5>1. 1 \in 1 .. Len(disk)
          BY <2>1, Lengths
        <5>. QED  BY <2>1, <3>1, <5>1 DEF InPlace
      <4>2. \A i \in 1 .. Len(delivered') : delivered'[i] = scan[i]
        <5>1. ASSUME NEW i \in 1 .. Len(delivered) PROVE delivered'[i] = scan[i]
          BY <1>2, <3>1 DEF InPlace
        <5>2. \A i \in 1 .. Len(delivered') : i \in 1 .. Len(delivered) \/ i = Len(delivered) + 1
          BY <1>2, Lengths
        <5>. QED  BY <1>2, <4>1, <5>1, <5>2
      <4>3. ASSUME NEW i \in 1 .. Len(disk') PROVE disk'[i] = scan[Len(delivered') + i]
        <5>1. /\ i \in 1 .. Len(disk) - 1 /\ i + 1 \in 1 .. Len(disk)
              /\ Len(delivered) + (i + 1) = Len(delivered') + i
          BY <1>2, <2>1, Lengths
        <5>. QED  BY <2>1, <3>1, <5>1 DEF InPlace
      <4>. QED  BY <1>1, <2>1, <3>1, <3>2, <4>2, <4>3 DEF InPlace, ScanRows
    <3>4. ScanIsShortest'
      BY DEF ScanKept, ScanIsShortest, ScanRows
    <3>. QED  BY <1>1, <1>4, <3>1, <3>2, <3>3, <3>4 DEF ScanKept
  <2>. QED  BY <2>2, <2>3, <2>4, <2>5, <2>6
<1>. QED  BY <1>3, <1>4

\* The spool is replayed.
LEMMA ReadKeeps ==
  ASSUME ReadInv, Read \/ ReplayFails
  PROVE  ReadInv'
<1>1. /\ at = "reading" /\ at \notin Leaving \cup {"idle", "migrating"} /\ at \notin Leaving \cup {"idle"}
      /\ at \notin Leaving
  BY DEF Read, ReplayFails, Leaving
<1>2. /\ terminal_error = "none" /\ drained /\ after = "none" /\ memory_lease = 0
      /\ answer = "eof" => stage \in {"none", "drained"}
      /\ wanted \in Nat /\ inner \in Seq(Batches) /\ rows \in Nat /\ tainted \in BOOLEAN
      /\ stage \in {"none", "memory", "writing", "replaying", "drained"}
  BY <1>1, RunningIs DEF ReadInv, MemoryKept, EndKept, Leaving, Holding, ReadTypeOK
<1>3. CASE ReplayFails
  <2>1. "io" \in ReadErrors /\ stage = "replaying"
    BY <1>3 DEF ReadErrors, ReplayFails
  <2>. QED  BY <1>1, <1>2, <1>3, <2>1, FailKeeps DEF ReplayFails, turnVars, scanVars, spoolVars
<1>4. CASE Read
  <2>1. UNCHANGED <<turnVars, scanVars, envVars>>
    BY <1>4 DEF Read
  <2>2. CASE /\ stage = "none" \/ stage = "drained"
             /\ answer' = "eof" /\ GoTo("idle")
             /\ UNCHANGED <<drained, delivered, spoolVars>>
    BY <1>1, <2>1, <2>2, AnswerKeeps
  <2>3. CASE Fail("cancelled") /\ UNCHANGED <<callerVars, spoolVars>>
    <3>1. "cancelled" \in ReadErrors
      BY DEF ReadErrors
    <3>. QED  BY <1>1, <1>2, <2>1, <2>3, <3>1, FailKeeps DEF turnVars, scanVars, spoolVars
  <2>4. CASE /\ stage = "memory" /\ queue # << >> /\ Deliver(Head(queue)) /\ queue' = Tail(queue) /\ GoTo("idle")
             /\ UNCHANGED <<stage, fileVars>>
    <3>1. Head(queue) \in Batches
      BY <2>4, TailIs DEF ReadInv, ReadTypeOK
    <3>. QED  BY <1>1, <2>1, <2>4, <3>1, DeliverKeeps DEF fileVars
  <2>5. CASE /\ stage = "replaying" /\ disk # << >> /\ Deliver(Head(disk)) /\ disk' = Tail(disk) /\ GoTo("idle")
             /\ UNCHANGED <<stage, queue, file, buffered, written, reserved>>
    <3>1. Head(disk) \in Batches
      BY <2>5, TailIs DEF ReadInv, ReadTypeOK
    <3>. QED  BY <1>1, <2>1, <2>5, <3>1, DeliverKeeps
  <2>6. CASE /\ (stage = "memory" /\ queue = << >>) \/ (stage = "replaying" /\ disk = << >>)
             /\ at' = "closing" /\ after' = "eof" /\ UNCHANGED <<terminal_error, callerVars, spoolVars>>
    <3>1. disk = << >> /\ queue = << >>
      BY <2>6 DEF ReadInv, SpoolKept
    <3>2. Held' = Held /\ Draining' = Draining
      BY <1>1, <1>2, <2>6 DEF Held, Draining, callerVars, Turning, Leaving
    <3>3. at' \in Leaving /\ at' \notin Holding /\ stage' = stage /\ stage # "writing" /\ answer # "eof"
      BY <1>2, <2>6 DEF Leaving, Holding, spoolVars
    <3>. QED  BY <1>1, <1>2, <2>1, <2>6, <3>1, <3>2, <3>3, PlaceKeeps DEF turnVars, scanVars, spoolVars
  <2>7. CASE stage = "none" /\ answer' = "eof" /\ GoTo("idle") /\ UNCHANGED <<drained, delivered, spoolVars>>
    BY <2>2, <2>7
  <2>8. CASE stage = "drained" /\ ~stopped /\ answer' = "eof" /\ GoTo("idle")
             /\ UNCHANGED <<drained, delivered, spoolVars>>
    BY <2>2, <2>8
  <2>9. CASE /\ (stage = "memory" /\ queue = << >>) \/ (stage = "replaying" /\ disk = << >>)
             /\ ~stopped /\ at' = "closing" /\ after' = "eof"
             /\ UNCHANGED <<terminal_error, callerVars, spoolVars>>
    BY <2>6, <2>9
  <2>. QED  BY <1>4, <2>3, <2>4, <2>5, <2>7, <2>8, <2>9 DEF Read
<1>. QED  BY <1>3, <1>4

\* The spool is closed: first the file, then the quota.
LEMMA LeaveKeeps ==
  ASSUME ReadInv, CloseFile \/ ReturnQuota
  PROVE  ReadInv'
<1>. USE DEF ReadInv, turnVars, scanVars, callerVars, envVars
<1>1. /\ at \in Leaving /\ after \in {"turn", "eof"} \cup ReadErrors /\ Held = 0
      /\ after \in ReadErrors => terminal_error = after /\ terminal_error # "none"
      /\ after \in {"turn", "eof"} => terminal_error = "none" /\ drained /\ after \notin ReadErrors
  <2>1. at \in Leaving /\ Held = 0 /\ "none" \notin ReadErrors /\ "turn" \notin ReadErrors /\ "eof" \notin ReadErrors
    BY DEF CloseFile, ReturnQuota, Leaving, Held, ReadErrors
  <2>. QED  BY <2>1 DEF EndKept, ReadTypeOK
<1>2. CASE CloseFile
  <2>1. /\ at = "closing" /\ at' = "returning" /\ file' = FALSE /\ buffered' = 0 /\ written' = 0 /\ disk' = << >>
        /\ UNCHANGED <<after, terminal_error, wanted, memory_lease, batch, inner, tainted, rows, stage, queue, reserved>>
        /\ UNCHANGED <<drained, delivered, answer, scan, limit, stopped, foreign>>
    BY <1>2 DEF CloseFile
  <2>2. ReadTypeOK'
    <3>1. file' \in BOOLEAN
      BY <2>1
    <3>. QED  BY <2>1, <3>1 DEF ReadTypeOK, Leaving
  <2>3. MemoryKept'
    <3>1. BytesOf(queue') = BytesOf(queue) /\ Threshold' = Threshold /\ FreeMemory' = FreeMemory
      BY <2>1 DEF Threshold, FreeMemory
    <3>. QED  BY <2>1, <3>1 DEF MemoryKept, Holding, Leaving
  <2>4. SpoolKept'
    BY <2>1 DEF SpoolKept, FreeSpill, Leaving, ReadTypeOK
  <2>5. EndKept'
    BY <2>1 DEF EndKept, Leaving
  <2>6. ScanKept'
    <3>1. CASE after = "turn"
      <4>1. terminal_error = "none" /\ drained /\ tainted /\ Draining /\ Draining'
        BY <1>1, <2>1, <3>1 DEF Draining, Leaving, ScanKept
      <4>2. answer = "none" /\ (stage = "none" => delivered = << >>)
        BY <4>1 DEF ScanKept
      <4>. QED  BY <2>1, <3>1, <4>1, <4>2, ScanTainted
    <3>2. CASE after # "turn"
      <4>1. terminal_error' = "none" => disk = << >> /\ queue = << >> /\ terminal_error = "none"
        BY <1>1, <2>1, <3>2 DEF ScanKept
      <4>2. Held' = Held /\ Draining' = Draining /\ at' \notin {"loop", "sized", "leased", "discarding"} /\ at # "migrating"
        BY <1>1, <2>1, <3>2 DEF Draining, Held, Leaving, Turning
      <4>. QED  BY <1>1, <2>1, <3>2, <4>1, <4>2, ScanSame
    <3>. QED  BY <3>1, <3>2
  <2>. QED  BY <2>2, <2>3, <2>4, <2>5, <2>6
<1>3. CASE ReturnQuota
  <2>1. /\ at = "returning" /\ reserved' = 0 /\ queue' = << >> /\ memory_lease' = 0 /\ batch' = NoBatch
        /\ after' = "none" /\ stage' = IF after \in ReadErrors THEN "none" ELSE "drained"
        /\ UNCHANGED <<terminal_error, wanted, inner, tainted, rows, drained, delivered>>
        /\ UNCHANGED <<disk, file, buffered, written, scan, limit, stopped, foreign>>
        /\ IF after = "turn" THEN at' = "turned" /\ UNCHANGED answer ELSE at' = "idle" /\ answer' = after
    BY <1>3 DEF ReturnQuota
  <2>2. disk = << >> /\ ~file /\ buffered = 0 /\ written = 0 /\ NoBatch \in Batches /\ at' \notin Leaving
    BY <2>1 DEF SpoolKept, NoBatch, Batches, Leaving
  <2>3. ReadTypeOK'
    <3>1. stage' \in {"none", "memory", "writing", "replaying", "drained"} /\ answer' \in {"none", "batch", "eof"} \cup ReadErrors
      BY <1>1, <2>1 DEF ReadTypeOK
    <3>. QED  BY <2>1, <2>2, <3>1 DEF ReadTypeOK, Turning
  <2>4. MemoryKept'
    <3>1. BytesOf(queue') = 0 /\ Threshold' = Threshold
      BY <2>1, BytesEmpty DEF Threshold
    <3>2. FreeMemory' >= 0
      <4>1. FreeMemory' = MemoryCapacity - foreign.memory
        BY <2>1, <3>1, Lengths, BudgetedReadAssumption DEF FreeMemory
      <4>2. MemoryCapacity - foreign.memory - memory_lease - BytesOf(queue) >= 0
        BY DEF MemoryKept, FreeMemory
      <4>3. memory_lease \in Nat /\ BytesOf(queue) \in Nat /\ foreign.memory \in Nat /\ MemoryCapacity \in Nat
        BY Lengths, BudgetedReadAssumption DEF ReadTypeOK
      <4>. QED  BY <4>1, <4>2, <4>3
    <3>. QED  BY <2>1, <3>1, <3>2, Lengths DEF MemoryKept, Holding
  <2>5. SpoolKept'
    <3>1. FreeSpill' >= 0
      <4>1. FreeSpill' = SpillCapacity - foreign.spill /\ SpillCapacity - foreign.spill - reserved >= 0
        BY <2>1, Lengths, BudgetedReadAssumption DEF FreeSpill, SpoolKept
      <4>2. reserved \in Nat /\ foreign.spill \in Nat /\ SpillCapacity \in Nat
        BY Lengths, BudgetedReadAssumption DEF ReadTypeOK
      <4>. QED  BY <4>1, <4>2
    <3>. QED  BY <2>1, <2>2, <3>1 DEF SpoolKept
  <2>6. CASE after = "turn"
    <3>1. terminal_error = "none" /\ drained /\ tainted /\ Draining /\ Draining' /\ "turn" \notin ReadErrors
      BY <1>1, <2>1, <2>6 DEF Draining, Leaving, Turning, ScanKept
    <3>2. answer = "none" /\ answer' = "none" /\ stage' = "drained" /\ at' = "turned"
      BY <2>1, <2>6, <3>1 DEF ScanKept
    <3>3. EndKept'
      BY <2>1, <3>1, <3>2 DEF EndKept, Leaving, ReadErrors
    <3>4. ScanKept'
      BY <2>1, <3>1, <3>2, ScanTainted
    <3>. QED  BY <2>3, <2>4, <2>5, <3>3, <3>4
  <2>7. CASE after = "eof"
    <3>1. terminal_error = "none" /\ drained /\ at' = "idle" /\ answer' = "eof" /\ stage' = "drained" /\ ~Draining /\ ~Draining'
      BY <1>1, <2>1, <2>7 DEF Draining, Leaving, Turning
    <3>2. EndKept'
      BY <2>1, <3>1 DEF EndKept, Leaving, ReadErrors
    <3>3. disk = << >> /\ queue = << >> /\ ~tainted
      BY <2>7, <3>1 DEF ScanKept
    <3>4. Held' = Held /\ Draining' = Draining
      BY <1>1, <2>1, <2>7, <3>1 DEF Held, Draining, Turning, Leaving
    <3>5. ScanKept'
      <4>1. terminal_error' = "none" /\ disk' = disk /\ queue' = queue /\ stage' # "none" /\ after' = "none"
        BY <2>1, <3>1, <3>3
      <4>2. at' \notin {"loop", "sized", "leased", "discarding"} \cup Leaving /\ Held # 1
        BY <1>1, <3>1 DEF Leaving
      <4>. QED  BY <2>1, <3>1, <3>3, <3>4, <4>1, <4>2, ScanSame
    <3>. QED  BY <2>3, <2>4, <2>5, <3>2, <3>5
  <2>8. CASE after \in ReadErrors
    <3>1. terminal_error = after /\ at' = "idle" /\ answer' = after /\ stage' = "none" /\ after # "turn" /\ after # "none" /\ after # "eof"
      BY <1>1, <2>1, <2>8 DEF ReadErrors
    <3>2. EndKept'
      <4>1. after' \notin {"turn", "eof"} \cup ReadErrors /\ answer' # "eof" /\ at' \notin Leaving
        BY <2>1, <3>1 DEF ReadErrors, Leaving
      <4>. QED  BY <2>1, <2>8, <3>1, <4>1 DEF EndKept
    <3>3. ScanKept'
      BY <2>1, <3>1, ScanSame
    <3>. QED  BY <2>3, <2>4, <2>5, <3>2, <3>3
  <2>. QED  BY <1>1, <2>6, <2>7, <2>8
<1>. QED  BY <1>2, <1>3

\* Nothing is kept yet.
LEMMA NotBegun ==
  ASSUME ReadInv, ~drained, terminal_error = "none"
  PROVE  /\ at \in {"idle"} \cup Leaving /\ stage = "none" /\ Draining /\ ~tainted /\ answer = "none"
         /\ InPlace /\ Continues /\ Kept = 0 /\ Held = 0 /\ rows = 0
<1>. USE DEF ReadInv
<1>1. /\ at \in {"idle"} \cup Leaving /\ stage = "none" /\ Draining /\ ~tainted /\ answer = "none"
      /\ InPlace /\ Continues
  BY DEF EndKept, Draining, ScanKept
<1>2. Held = 0 /\ queue = << >> /\ disk = << >> /\ delivered = << >>
  BY <1>1 DEF Held, Leaving, SpoolKept, Continues
<1>3. Kept = 0
  BY <1>2 DEF Kept
<1>4. scan \in Seq(Batches)
  BY DEF ReadTypeOK
<1>5. rows = 0
  BY <1>1, <1>3, <1>4, PrefixRows DEF InPlace, ScanRows
<1>. QED  BY <1>1, <1>2, <1>3, <1>5

\* A call of next_batch.
LEMMA CallKeeps ==
  ASSUME ReadInv, Call
  PROVE  ReadInv'
<1>. USE DEF ReadInv, turnVars, scanVars, callerVars, envVars, spoolVars, fileVars
<1>1. /\ at = "idle" /\ at \notin Leaving /\ after = "none" /\ Held = 0 /\ memory_lease = 0
      /\ UNCHANGED <<turnVars, scanVars, spoolVars, delivered, envVars>>
  BY DEF Call, Leaving, Held, EndKept, MemoryKept, Holding
<1>2. ASSUME at' \in {"idle", "loop", "reading"}, UNCHANGED <<after, terminal_error>>, drained' \in BOOLEAN, drained => drained',
             at' # "idle" => terminal_error = "none" /\ drained', at' = "loop" => answer # "eof",
             at' # "idle" => answer \notin ReadErrors,
             UNCHANGED answer, ScanKept'
      PROVE  ReadInv'
  <2>1. ReadTypeOK'
    BY <1>1, <1>2 DEF ReadTypeOK, Turning
  <2>2. MemoryKept'
    <3>1. BytesOf(queue') = BytesOf(queue) /\ Threshold' = Threshold /\ FreeMemory' = FreeMemory
      BY <1>1 DEF Threshold, FreeMemory
    <3>. QED  BY <1>1, <1>2, <3>1 DEF MemoryKept, Holding
  <2>3. SpoolKept'
    BY <1>1, <1>2 DEF SpoolKept, FreeSpill, Leaving
  <2>4. EndKept'
    BY <1>1, <1>2 DEF EndKept, Leaving
  <2>. QED  BY <1>2, <2>1, <2>2, <2>3, <2>4
<1>3. CASE terminal_error # "none"
  <2>1. at' = "idle" /\ UNCHANGED <<after, terminal_error, drained, answer>> /\ drained' \in BOOLEAN
    BY <1>1, <1>3 DEF Call, GoTo, EndKept, ReadTypeOK
  <2>2. ScanKept'
    BY <1>1, <1>3, <2>1, ScanSame
  <2>. QED  BY <1>2, <2>1, <2>2
<1>4. CASE terminal_error = "none" /\ stopped
  <2>1. Fail("cancelled") /\ UNCHANGED <<drained, answer>> /\ "cancelled" \in ReadErrors
    BY <1>4 DEF Call, ReadErrors
  <2>2. wanted' \in Nat /\ inner' \in Seq(Batches) /\ rows' \in Nat /\ tainted' \in BOOLEAN
    BY <1>1 DEF ReadTypeOK
  <2>. QED  BY <1>1, <1>4, <2>1, <2>2, FailKeeps
<1>5. CASE terminal_error = "none" /\ ~stopped
  <2>1. /\ drained' = TRUE /\ at' = (IF drained \/ limit = 0 THEN "reading" ELSE "loop")
        /\ UNCHANGED <<after, terminal_error, answer>>
    BY <1>5 DEF Call, GoTo
  <2>2. drained' \in BOOLEAN /\ drained' /\ answer \notin ReadErrors
    <3>1. drained'
      BY <2>1
    <3>. QED  BY <1>5, <2>1, <3>1 DEF EndKept, ReadErrors
  <2>3. CASE drained
    <3>1. Held' = Held /\ Draining' = Draining /\ at' = "reading" /\ drained' = drained
      BY <1>1, <2>1, <2>3 DEF Held, Draining, Turning, Leaving, ReadTypeOK
    <3>2. ScanKept'
      BY <1>1, <1>5, <2>1, <3>1, ScanSame
    <3>. QED  BY <1>2, <1>5, <2>1, <2>2, <3>1, <3>2
  <2>4. CASE ~drained
    <3>1. /\ stage = "none" /\ Draining /\ ~tainted /\ answer = "none"
          /\ InPlace /\ Continues /\ Kept = 0 /\ rows = 0
      BY <1>5, <2>4, NotBegun
    <3>2. /\ at' \notin {"discarding"} \cup Leaving /\ Held' = 0 /\ Kept' = Kept /\ scan' = scan /\ limit' = limit
      BY <1>1, <2>1 DEF Held, Kept, Leaving
    <3>3. InPlace' /\ ScanIsShortest'
      BY <1>1, <3>1, <3>2 DEF InPlace, ScanRows, ScanKept, ScanIsShortest
    <3>4. CASE limit = 0
      <4>1. ~Draining'
        BY <2>1, <2>2, <3>4 DEF Draining, Turning, Leaving
      <4>2. Kept = Len(scan)
        <5>1. SUFFICES ASSUME Len(scan) > 0 PROVE FALSE
          BY <3>1, Lengths
        <5>2. scan \in Seq(Batches) /\ 0 \in 0 .. Len(scan) - 1 /\ limit # NoLimit
          BY <3>4, <5>1, Lengths, BudgetedReadAssumption DEF ReadTypeOK
        <5>3. ScanRows(0) < 0 /\ ScanRows(0) = 0
          BY <3>4, <5>2, PrefixRows DEF ScanKept, ScanIsShortest, ScanRows
        <5>. QED  BY <5>3
      <4>3. ScanKept'
        BY <1>1, <1>5, <2>1, <3>1, <3>2, <3>3, <4>1, <4>2 DEF ScanKept, Continues, EndKept
      <4>. QED  BY <1>2, <1>5, <2>1, <2>2, <3>1, <3>4, <4>3
    <3>5. CASE limit # 0
      <4>1. at' = "loop" /\ Draining'
        BY <2>1, <2>4, <3>5 DEF Draining, Turning
      <4>2. ~LimitReached'
        <5>1. limit \in Nat \cup {NoLimit}
          BY BudgetedReadAssumption DEF ReadTypeOK
        <5>. QED  BY <1>1, <3>1, <3>5, <5>1 DEF LimitReached
      <4>3. Continues'
        BY <1>1, <3>1, <3>2, <4>1, <4>2 DEF Continues, ScanRows
      <4>4. ScanKept'
        BY <1>1, <1>5, <2>1, <3>1, <3>2, <3>3, <4>1, <4>3 DEF ScanKept, Continues, EndKept
      <4>. QED  BY <1>2, <1>5, <2>1, <2>2, <3>1, <4>1, <4>4
    <3>. QED  BY <3>4, <3>5
  <2>. QED  BY <2>3, <2>4
<1>. QED  BY <1>3, <1>4, <1>5

\* The other operations, and the stop.
LEMMA OthersKeep ==
  ASSUME ReadInv,
         \/ StopRead \/ UNCHANGED readVars
         \/ \E memory \in ForeignMemory, spill \in ForeignSpill : OthersLease(memory, spill)
  PROVE  ReadInv'
<1>. USE DEF ReadInv, turnVars, scanVars, callerVars, envVars, spoolVars, fileVars, readVars
<1>1. /\ UNCHANGED <<at, after, terminal_error, turnVars, scanVars, spoolVars, callerVars, scan, limit>>
      /\ stopped' \in BOOLEAN
  <2>1. ASSUME StopRead PROVE stopped' \in BOOLEAN
    <3>1. stopped' = TRUE
      BY <2>1 DEF StopRead
    <3>. QED  BY <3>1
  <2>2. ASSUME UNCHANGED stopped PROVE stopped' \in BOOLEAN
    BY <2>2 DEF ReadTypeOK
  <2>. QED  BY <2>1, <2>2 DEF StopRead, OthersLease
<1>2. foreign' \in [memory : Nat, spill : Nat] /\ FreeMemory' >= 0 /\ FreeSpill' >= 0
  <2>1. CASE UNCHANGED foreign
    <3>1. FreeMemory' = FreeMemory /\ FreeSpill' = FreeSpill
      BY <1>1, <2>1 DEF FreeMemory, FreeSpill
    <3>. QED  BY <2>1, <3>1 DEF ReadTypeOK, MemoryKept, SpoolKept
  <2>2. ASSUME NEW memory \in ForeignMemory, NEW spill \in ForeignSpill, OthersLease(memory, spill)
        PROVE  foreign' \in [memory : Nat, spill : Nat] /\ FreeMemory' >= 0 /\ FreeSpill' >= 0
    <3>1. memory \in Nat /\ spill \in Nat /\ foreign' = [memory |-> memory, spill |-> spill]
      BY <2>2, BudgetedReadAssumption DEF OthersLease
    <3>2. FreeMemory' = MemoryCapacity - memory - memory_lease - BytesOf(queue) /\ FreeSpill' = SpillCapacity - spill - reserved
      BY <1>1, <3>1 DEF FreeMemory, FreeSpill
    <3>3. /\ memory - foreign.memory <= MemoryCapacity - foreign.memory - memory_lease - BytesOf(queue)
          /\ spill - foreign.spill <= SpillCapacity - foreign.spill - reserved
      BY <2>2 DEF OthersLease, FreeMemory, FreeSpill
    <3>4. /\ foreign.memory \in Nat /\ foreign.spill \in Nat /\ memory_lease \in Nat /\ BytesOf(queue) \in Nat
          /\ reserved \in Nat /\ MemoryCapacity \in Nat /\ SpillCapacity \in Nat
      BY Lengths, BudgetedReadAssumption DEF ReadTypeOK
    <3>5. FreeMemory' >= 0 /\ FreeSpill' >= 0
      BY <3>1, <3>2, <3>3, <3>4
    <3>. QED  BY <3>1, <3>5
  <2>. QED  BY <2>1, <2>2 DEF StopRead
<1>3. ReadTypeOK'
  BY <1>1, <1>2 DEF ReadTypeOK
<1>4. MemoryKept'
  BY <1>1, <1>2 DEF MemoryKept, Threshold, Accounted
<1>5. SpoolKept' /\ EndKept'
  BY <1>1, <1>2 DEF SpoolKept, EndKept
<1>6. ScanKept'
  <2>1. Held' = Held /\ Draining' = Draining
    BY <1>1 DEF Held, Draining
  <2>2. terminal_error = "none" =>
          /\ at \in {"loop", "sized", "leased"} => tainted \/ ~LimitReached
          /\ at = "discarding" \/ (at \in Leaving /\ after = "turn") => tainted
          /\ after = "eof" => disk = << >> /\ queue = << >>
    BY DEF ScanKept, Continues, Draining, Turning
  <2>. QED  BY <1>1, <2>1, <2>2, ScanSame
<1>. QED  BY <1>3, <1>4, <1>5, <1>6

\* The invariant is inductive, ...
LEMMA ReadStepHolds == ReadInv /\ [ReadNext]_readVars => ReadInv'
BY LeasingKeeps, TurnKeeps, CheckKeeps, PushKeeps, MigrateKeeps, WritingKeeps, SealKeeps, ReadKeeps, LeaveKeeps,
   CallKeeps, OthersKeep DEF ReadNext, ReadStep

\* ... and so it always holds.
LEMMA ReadInvHolds == BudgetedSpec => []ReadInv
BY ReadInitHolds, ReadStepHolds, PTL DEF BudgetedSpec

-----------------------------------------------------------------------------
(* BudgetedRead: what the invariant says *)

\* Memory and volume are bounded at every instant, whoever else takes quota,
\* and a read that has ended holds nothing.
THEOREM QuotaKept == BudgetedSpec => []QuotaIsKept
<1>1. ReadInv => QuotaIsKept
  <2>. SUFFICES ASSUME ReadInv PROVE QuotaIsKept
    OBVIOUS
  <2>. USE DEF ReadInv
  <2>1. MemoryBounded
    BY DEF MemoryKept, MemoryBounded
  <2>2. VolumeWithinQuota
    <3>1. SpillCapacity \in Nat /\ foreign.spill \in Nat /\ reserved \in Nat /\ written \in Nat
      BY BudgetedReadAssumption DEF ReadTypeOK
    <3>2. written <= reserved /\ SpillCapacity - foreign.spill - reserved >= 0
      BY DEF SpoolKept, FreeSpill
    <3>. QED  BY <3>1, <3>2 DEF VolumeWithinQuota
  <2>3. ASSUME at = "idle", answer \in {"eof"} \cup ReadErrors
        PROVE  memory_lease = 0 /\ queue = << >> /\ reserved = 0 /\ ~file
    <3>1. stage \in {"none", "drained"}
      BY <2>3 DEF EndKept
    <3>. QED  BY <2>3, <3>1 DEF SpoolKept, MemoryKept, Holding, Leaving
  <2>. QED  BY <2>1, <2>2, <2>3 DEF QuotaIsKept
<1>. QED  BY <1>1, ReadInvHolds, PTL

\* Once the drain has ended without an error, the whole scan is verified, and
\* every batch of it is either delivered or in the spool, in its place.
LEMMA DrainEnded ==
  ASSUME ReadInv, ~Draining, terminal_error = "none"
  PROVE  /\ InPlace /\ Kept = Len(scan) /\ rows = RowsOf(scan)
         /\ Promise!Acceptable
         /\ Held = 0 /\ disk = << >> /\ queue = << >> => delivered = scan
<1>. USE DEF ReadInv
<1>1. InPlace /\ Kept = Len(scan)
  BY DEF ScanKept
<1>2. scan \in Seq(Batches) /\ delivered \in Seq(Batches)
  BY DEF ReadTypeOK
<1>3. rows = RowsOf(scan) /\ rows <= MaxRows
  BY <1>1, <1>2, WholePrefix DEF InPlace, ScanRows
<1>4. Promise!Acceptable
  <2>1. Promise!RowsOf(scan) = RowsOf(scan)
    BY DEF Promise!RowsOf, RowsOf, Promise!Total, Total, Promise!PartialTotals, PartialTotals
  <2>2. \A i \in 1 .. Len(scan) : scan[i].valid
    BY <1>1 DEF InPlace
  <2>. QED  BY <1>3, <2>1, <2>2 DEF Promise!Acceptable
<1>5. ASSUME Held = 0, disk = << >>, queue = << >> PROVE delivered = scan
  <2>1. Len(delivered) = Len(scan)
    BY <1>1, <1>2, <1>5 DEF Kept
  <2>2. \A i \in 1 .. Len(delivered) : delivered[i] = scan[i]
    BY <1>1 DEF InPlace
  <2>. QED  BY <1>2, <2>1, <2>2
<1>. QED  BY <1>1, <1>3, <1>4, <1>5

\* The total declared after the first answer is that of the whole scan, and
\* with EOF that of what was delivered.
THEOREM TotalExact == BudgetedSpec => []TotalIsExact
<1>1. ReadInv => TotalIsExact
  <2>. SUFFICES ASSUME ReadInv, at = "idle", answer \in {"batch", "eof"}
                PROVE  /\ AcceptedTotal = RowsOf(scan)
                       /\ answer = "eof" => AcceptedTotal = RowsOf(delivered)
    BY DEF TotalIsExact
  <2>. USE DEF ReadInv
  <2>1. answer \notin ReadErrors /\ answer # "none"
    BY DEF ReadErrors
  <2>2. terminal_error = "none"
    <3>1. terminal_error # "none" => answer = terminal_error /\ terminal_error \in ReadErrors
      BY DEF EndKept, ReadTypeOK, Leaving
    <3>. QED  BY <2>1, <3>1
  <2>3. ~Draining
    BY <2>1, <2>2 DEF ScanKept
  <2>4. drained /\ Held = 0 /\ rows = RowsOf(scan)
    BY <2>2, <2>3, DrainEnded DEF Draining, Held
  <2>5. AcceptedTotal = RowsOf(scan)
    BY <2>2, <2>4 DEF AcceptedTotal
  <2>6. ASSUME answer = "eof" PROVE delivered = scan
    <3>1. queue = << >> /\ disk = << >>
      BY <2>6 DEF EndKept, SpoolKept, Leaving
    <3>. QED  BY <2>2, <2>3, <2>4, <3>1, DrainEnded
  <2>. QED  BY <2>5, <2>6
<1>. QED  BY <1>1, ReadInvHolds, PTL

-----------------------------------------------------------------------------
(* BudgetedRead implements AtomicRead *)

\* The answer of a call that replays the spool.
LEMMA ReadDelivers ==
  ASSUME ReadInv, Read
  PROVE  [Promise!Next]_<<scan, delivered, ReadOutcome>>
<1>. USE DEF ReadInv
<1>1. at = "reading" /\ terminal_error = "none" /\ ~Draining /\ Held = 0 /\ answer \notin ReadErrors /\ scan' = scan
  <2>1. at = "reading" /\ scan' = scan
    BY DEF Read, envVars
  <2>. QED  BY <2>1 DEF EndKept, Draining, Turning, Leaving, Held
<1>2. /\ InPlace /\ Kept = Len(scan) /\ Promise!Acceptable
      /\ disk = << >> /\ queue = << >> => delivered = scan
  BY <1>1, DrainEnded
<1>3. /\ delivered \in Seq(Batches) /\ disk \in Seq(Batches) /\ queue \in Seq(Batches) /\ scan \in Seq(Batches)
      /\ Len(delivered) \in Nat /\ Len(disk) \in Nat /\ Len(queue) \in Nat /\ Len(scan) \in Nat
      /\ "batch" \notin ReadErrors
  <2>1. /\ delivered \in Seq(Batches) /\ disk \in Seq(Batches) /\ queue \in Seq(Batches) /\ scan \in Seq(Batches)
    BY DEF ReadTypeOK
  <2>. QED  BY <2>1 DEF ReadErrors
<1>4. ASSUME stage \in {"none", "drained"}, answer' = "eof", delivered' = delivered
      PROVE  [Promise!Next]_<<scan, delivered, ReadOutcome>>
  <2>1. disk = << >> /\ queue = << >>
    BY <1>1, <1>4 DEF SpoolKept, Leaving
  <2>2. ReadOutcome' = "eof" /\ (ReadOutcome = "eof" \/ ReadOutcome = "open")
    BY <1>1, <1>4 DEF ReadOutcome
  <2>3. CASE ReadOutcome = "eof"
    BY <1>1, <1>4, <2>2, <2>3
  <2>4. CASE ReadOutcome = "open"
    <3>1. Promise!End
      BY <1>1, <1>2, <1>4, <2>1, <2>2, <2>4 DEF Promise!End
    <3>. QED  BY <3>1 DEF Promise!Next
  <2>. QED  BY <2>2, <2>3, <2>4
<1>5. ASSUME stage \in {"memory", "replaying"}, NEW b, b = scan[Len(delivered) + 1], Len(delivered) < Len(scan), Deliver(b)
      PROVE  [Promise!Next]_<<scan, delivered, ReadOutcome>>
  <2>1. ReadOutcome = "open"
    BY <1>5 DEF EndKept, ReadOutcome
  <2>2. ReadOutcome' = "open" /\ delivered' = Append(delivered, b)
    BY <1>3, <1>5 DEF Deliver, ReadOutcome
  <2>3. Promise!Deliver
    BY <1>1, <1>2, <1>5, <2>1, <2>2 DEF Promise!Deliver
  <2>. QED  BY <2>3 DEF Promise!Next
<1>6. CASE stage = "none" /\ answer' = "eof" /\ UNCHANGED delivered
  BY <1>4, <1>6
<1>7. CASE UNCHANGED callerVars
  BY <1>1, <1>7 DEF callerVars, ReadOutcome
<1>8. CASE stage = "memory" /\ queue # << >> /\ Deliver(Head(queue))
  <2>1. disk = << >> /\ Len(disk) = 0 /\ Len(queue) > 0 /\ Head(queue) = queue[1]
    BY <1>3, <1>8, TailIs DEF SpoolKept
  <2>2. queue[1] = scan[Len(delivered) + Len(disk) + 1]
    BY <1>2, <1>3, <2>1 DEF InPlace
  <2>3. Len(delivered) < Len(scan)
    BY <1>1, <1>2, <1>3, <2>1 DEF Kept
  <2>4. Head(queue) = scan[Len(delivered) + 1]
    BY <1>3, <2>1, <2>2
  <2>. QED  BY <1>5, <1>8, <2>3, <2>4
<1>9. CASE stage = "replaying" /\ disk # << >> /\ Deliver(Head(disk))
  <2>1. Len(disk) > 0 /\ Head(disk) = disk[1]
    BY <1>3, <1>9, TailIs
  <2>2. disk[1] = scan[Len(delivered) + 1]
    BY <1>2, <1>3, <2>1 DEF InPlace
  <2>3. Len(delivered) < Len(scan)
    BY <1>1, <1>2, <1>3, <2>1 DEF Kept
  <2>. QED  BY <1>5, <1>9, <2>1, <2>2, <2>3
<1>10. CASE stage = "drained" /\ answer' = "eof" /\ UNCHANGED delivered
  BY <1>4, <1>10
<1>. QED  BY <1>6, <1>7, <1>8, <1>9, <1>10 DEF Read, callerVars

\* The answer of a call whose spool is closed.
LEMMA ReturnAnswers ==
  ASSUME ReadInv, ReturnQuota
  PROVE  [Promise!Next]_<<scan, delivered, ReadOutcome>>
<1>. USE DEF ReadInv
<1>1. /\ at = "returning" /\ at \in Leaving /\ Held = 0 /\ UNCHANGED <<scan, delivered>>
      /\ IF after = "turn" THEN UNCHANGED answer ELSE answer' = after
  BY DEF ReturnQuota, Leaving, Held, envVars
<1>2. after \in {"turn", "eof"} \cup ReadErrors /\ "eof" \notin ReadErrors /\ "turn" \notin ReadErrors
  BY <1>1 DEF EndKept, ReadTypeOK, ReadErrors
<1>3. answer \notin ReadErrors
  BY <1>1 DEF EndKept
<1>4. CASE after = "turn"
  BY <1>1, <1>4 DEF ReadOutcome
<1>5. CASE after = "eof"
  <2>1. terminal_error = "none" /\ ~Draining /\ ReadOutcome' = "eof"
    BY <1>1, <1>5 DEF EndKept, Draining, Turning, Leaving, ReadOutcome
  <2>2. delivered = scan /\ Promise!Acceptable
    BY <1>1, <1>5, <2>1, DrainEnded DEF ScanKept
  <2>3. CASE answer = "eof"
    BY <1>1, <2>1, <2>3 DEF ReadOutcome
  <2>4. CASE answer # "eof"
    <3>1. ReadOutcome = "open"
      BY <1>3, <2>4 DEF ReadOutcome
    <3>2. Promise!End
      BY <1>1, <2>1, <2>2, <3>1 DEF Promise!End
    <3>. QED  BY <3>2 DEF Promise!Next
  <2>. QED  BY <2>3, <2>4
<1>6. CASE after \in ReadErrors
  <2>1. ReadOutcome' = after /\ terminal_error = after
    BY <1>1, <1>2, <1>6 DEF EndKept, ReadOutcome
  <2>2. CASE answer = "eof"
    <3>1. after = "cancelled"
      BY <1>6, <2>1, <2>2 DEF EndKept, ReadErrors
    <3>2. ReadOutcome = "eof"
      BY <2>2 DEF ReadOutcome
    <3>3. Promise!FailAfterEnd
      BY <1>1, <2>1, <3>1, <3>2 DEF Promise!FailAfterEnd
    <3>. QED  BY <3>3 DEF Promise!Next
  <2>3. CASE answer # "eof"
    <3>1. ReadOutcome = "open"
      BY <1>3, <2>3 DEF ReadOutcome
    <3>2. Promise!Fail(after)
      BY <1>1, <2>1, <3>1 DEF Promise!Fail
    <3>. QED  BY <1>6, <3>2 DEF Promise!Next
  <2>. QED  BY <2>2, <2>3
<1>. QED  BY <1>2, <1>4, <1>5, <1>6

\* A step that answers nothing.
LEMMA OtherSteps ==
  ASSUME ReadInv, [ReadNext]_readVars, ~Read, ~ReturnQuota
  PROVE  UNCHANGED <<scan, delivered, answer>>
<1>. USE DEF turnVars, scanVars, callerVars, envVars, spoolVars, fileVars
<1>1. CASE Call
  <2>1. CASE terminal_error # "none"
    BY <1>1, <2>1 DEF Call, ReadInv, EndKept, Leaving
  <2>. QED  BY <1>1, <2>1 DEF Call
<1>2. CASE Size \/ LeaseMemory \/ SourceFails \/ SourceEnds \/ CheckBatch \/ Discard \/ EndTurn
  BY <1>2 DEF Size, LeaseMemory, SourceFails, SourceEnds, CheckBatch, Discard, EndTurn
<1>3. CASE PushMemory \/ PushRefused \/ StartMigration \/ PushDisk \/ Migrate \/ EndMigration \/ WriteBatch
  BY <1>3 DEF PushMemory, PushRefused, StartMigration, PushDisk, Migrate, EndMigration, WriteBatch
<1>4. CASE WriteFails \/ Seal \/ ReplayFails \/ CloseFile
  BY <1>4 DEF WriteFails, Seal, ReplayFails, CloseFile
<1>5. CASE StopRead \/ (\E memory \in ForeignMemory, spill \in ForeignSpill : OthersLease(memory, spill))
  BY <1>5 DEF StopRead, OthersLease
<1>6. CASE UNCHANGED readVars
  BY <1>6 DEF readVars
<1>. QED  BY <1>1, <1>2, <1>3, <1>4, <1>5, <1>6 DEF ReadNext, ReadStep

\* The reader is atomic for the operation: whatever fails on the way, a batch
\* is delivered only after the whole scan was verified, in order, EOF comes
\* after all of it, and an error is final.
THEOREM ReadIsAtomic == BudgetedSpec => ReadSpec
<1>1. ReadInit => Promise!Init
  BY DEF ReadInit, Promise!Init, ReadOutcome, ReadErrors
<1>2. ReadInv /\ [ReadNext]_readVars => [Promise!Next]_<<scan, delivered, ReadOutcome>>
  <2>. SUFFICES ASSUME ReadInv, [ReadNext]_readVars
                PROVE  [Promise!Next]_<<scan, delivered, ReadOutcome>>
    OBVIOUS
  <2>1. CASE Read
    BY <2>1, ReadDelivers
  <2>2. CASE ReturnQuota
    BY <2>2, ReturnAnswers
  <2>3. CASE ~Read /\ ~ReturnQuota
    <3>1. UNCHANGED <<scan, delivered, answer>>
      BY <2>3, OtherSteps
    <3>. QED  BY <3>1 DEF ReadOutcome
  <2>. QED  BY <2>1, <2>2, <2>3
<1>. QED  BY <1>1, <1>2, ReadInvHolds, PTL DEF BudgetedSpec, ReadSpec, Promise!Spec

=============================================================================
