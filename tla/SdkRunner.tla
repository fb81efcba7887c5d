------------------------------ MODULE SdkRunner ------------------------------
(***************************************************************************)
(* One Runner.run of the Python SDK: sdk/python/src/plenora_io/_process.py. *)
(*                                                                         *)
(* The caller's thread waits for the child process, two threads read its   *)
(* stdout and stderr, and the closing runs on every way out.  The child    *)
(* writes and exits when it likes; a process of its own (a grandchild) may *)
(* keep the pipes open after it; the timeout of the client may expire; and *)
(* an exception may strike the caller's thread between any two steps.      *)
(***************************************************************************)
EXTENDS Integers

CONSTANTS
  Written,     (* bound: the streams that are written to                   *)
  MaxBlocks,   (* bound: the blocks written to one of them                 *)
  MaxStrikes   (* bound: the exceptions that strike the caller             *)

Streams == {"stdout", "stderr"}

ASSUME SdkRunnerAssumption ==
  MaxBlocks \in Nat /\ MaxStrikes \in Nat /\ Written \subseteq Streams

PipeRoom == 1
Dropped == -1

VARIABLES
  child,      (* "running", or how it exited: "ok" or "fail"               *)
  grandchild, (* a process of the child's holds the pipes                  *)
  elapsed,    (* the timeout of the client has passed                      *)
  tardy,      (* the child exited after it                                 *)
  strikes,
  sent,       (* the blocks written to each stream                         *)
  pipe,       (* the blocks nobody has read yet                            *)
  open,       (* our end of each pipe                                      *)
  reader,     (* where each _Lettore is                                    *)
  data,       (* _Lettore._dati, in blocks, or Dropped                     *)
  failed,     (* _Lettore._fallito                                         *)
  confirmed,  (* _Lettore.chiuso_dal_chiamante                             *)
  concluded,  (* conclusione                                               *)
  token,      (* the frame of run, or its gettone, is alive                *)
  place,      (* where the caller is                                       *)
  stream,     (* the stream of the loops of place                         *)
  attempt,    (* tentativo of _chiudi                                      *)
  tried,      (* the child was sent a signal, or this failed               *)
  gathered,   (* the blocks prendi returned for each stream                *)
  outcome,    (* primaria of _esito, or its risultato                      *)
  closing,    (* the locals of _chiudi, and its esito                      *)
  reply,      (* how run ended                                             *)
  noted       (* NOTA_DELLA_CHIUSURA is on the exception                   *)

childVars == <<child, grandchild, elapsed, tardy>>
pipeVars  == <<sent, pipe, failed>>
ownVars   == <<open, confirmed, data>>
endVars   == <<concluded, token>>
placeVars == <<place, stream>>
killVars  == <<attempt, tried>>
workVars  == <<gathered, outcome, closing>>
replyVars == <<reply, noted>>
callerVars == <<strikes, placeVars, endVars, killVars, workVars, replyVars>>
runVars == <<childVars, pipeVars, reader, ownVars, callerVars>>

\* known: _chiudi returned an esito; alive, clean and interrupted are its
\* vivo, riuscita and interruzione.
Esiti == [known : BOOLEAN, alive : BOOLEAN, clean : BOOLEAN, interrupted : BOOLEAN]

NoClosing == [known |-> FALSE, alive |-> FALSE, clean |-> TRUE, interrupted |-> FALSE]

-----------------------------------------------------------------------------
(* The child, its child, and the clock *)

Writers == child = "running" \/ grandchild

Write(s) ==
  /\ Writers
  /\ s \in Written
  /\ open[s]
  /\ pipe[s] < PipeRoom
  /\ sent[s] < MaxBlocks
  /\ sent' = [sent EXCEPT ![s] = @ + 1]
  /\ pipe' = [pipe EXCEPT ![s] = @ + 1]
  /\ UNCHANGED <<childVars, failed, reader, ownVars, callerVars>>

Exit(how) ==
  /\ child = "running"
  /\ child' = how
  /\ tardy' = elapsed
  /\ UNCHANGED <<grandchild, elapsed, pipeVars, reader, ownVars, callerVars>>

GrandchildExits ==
  /\ grandchild
  /\ grandchild' = FALSE
  /\ UNCHANGED <<child, elapsed, tardy, pipeVars, reader, ownVars, callerVars>>

Working == {"register", "start", "started", "wait", "look", "gather", "decode"}
Closing == {"poll", "kill", "reap", "repoll", "claim", "close", "confirm"}

\* Nothing looks at the clock of the client once _attendi is left.
Expire ==
  /\ ~ elapsed
  /\ place \in Working
  /\ elapsed' = TRUE
  /\ UNCHANGED <<child, grandchild, tardy, pipeVars, reader, ownVars, callerVars>>

-----------------------------------------------------------------------------
(* _Lettore *)

\* Mutant: the end of the run is told by the event alone.
RunFinishedByEvent == concluded

\* _run_finito: told by the event, or by the frame of run that is gone.
RunFinished == concluded \/ ~ token

\* The thread begins, and has an ident.
Begin(s) ==
  /\ reader[s] = "launched"
  /\ reader' = [reader EXCEPT ![s] = "reading"]
  /\ UNCHANGED <<childVars, pipeVars, ownVars, callerVars>>

\* One read of the loop: a block, thrown away once the run is over, or EOF.
Read(s) ==
  /\ reader[s] = "reading"
  /\ \/ /\ pipe[s] > 0
        /\ pipe' = [pipe EXCEPT ![s] = @ - 1]
        /\ data' = [data EXCEPT ![s] =
             IF RunFinished \/ @ = Dropped THEN Dropped ELSE @ + 1]
        /\ UNCHANGED reader
     \/ /\ pipe[s] = 0
        /\ ~ Writers
        /\ reader' = [reader EXCEPT ![s] = "finishing"]
        /\ UNCHANGED <<pipe, data>>
  /\ UNCHANGED <<childVars, sent, failed, open, confirmed, callerVars>>

ReadFails(s) ==
  /\ reader[s] = "reading"
  /\ reader' = [reader EXCEPT ![s] = "finishing"]
  /\ failed' = [failed EXCEPT ![s] = TRUE]
  /\ UNCHANGED <<childVars, sent, pipe, ownVars, callerVars>>

\* The finally of _leggi: guasto, _finito and _letto.
Finish(s) ==
  /\ reader[s] = "finishing"
  /\ reader' = [reader EXCEPT ![s] = "finished"]
  /\ UNCHANGED <<childVars, pipeVars, ownVars, callerVars>>

HasRead(s) == reader[s] \in {"finished", "gone"}

\* guasto.is_set()
Fault == \E s \in Streams : failed[s] /\ HasRead(s)

\* The run is over: the pipe is closed here unless the caller has said so.
Leave(s) ==
  /\ reader[s] = "finished"
  /\ RunFinished
  /\ reader' = [reader EXCEPT ![s] = "gone"]
  /\ data' = [data EXCEPT ![s] = Dropped]
  /\ open' = [open EXCEPT ![s] = @ /\ confirmed[s]]
  /\ UNCHANGED <<childVars, pipeVars, confirmed, callerVars>>

-----------------------------------------------------------------------------
(* The try of Runner._esito, with _attendi *)

MoveTo(there) == place' = there /\ stream' = "stdout"

\* What _esito has when it calls _chiudi: an exception, or the result.
Finally(what) ==
  /\ outcome' = what
  /\ MoveTo("poll")

\* What no step of the work before _chiudi touches.
ClosingUntouched ==
  UNCHANGED <<childVars, pipeVars, open, confirmed, strikes, endVars, killVars, closing,
              replyVars>>

\* registra_avvio, and both _Lettore.
RegistraAvvio ==
  /\ place = "register"
  /\ (MoveTo("start") /\ UNCHANGED outcome) \/ Finally("error")
  /\ UNCHANGED <<reader, data, gathered>> /\ ClosingUntouched

\* One thread is launched, or cannot be.
Start ==
  /\ place = "start"
  /\ \/ /\ reader' = [reader EXCEPT ![stream] = "launched"]
        /\ place' = "started"
        /\ UNCHANGED <<stream, outcome>>
     \/ Finally("error") /\ UNCHANGED reader
  /\ UNCHANGED <<data, gathered>> /\ ClosingUntouched

\* Thread.start returns when the thread has begun.
Started ==
  /\ place = "started"
  /\ reader[stream] # "launched"
  /\ IF stream = "stdout" THEN place' = "start" /\ stream' = "stderr" ELSE MoveTo("wait")
  /\ UNCHANGED <<reader, data, gathered, outcome>> /\ ClosingUntouched

\* wait for one _PASSO: the process has not exited, has in time, has too
\* late, or cannot be waited for.
Wait ==
  /\ place = "wait"
  /\ \/ child = "running" /\ MoveTo("look") /\ UNCHANGED outcome
     \/ child # "running" /\ ~ elapsed /\ MoveTo("gather") /\ UNCHANGED outcome
     \/ child # "running" /\ elapsed /\ Finally("error")
     \/ Finally("error")
  /\ UNCHANGED <<reader, data, gathered>> /\ ClosingUntouched

\* Between two waits: the readers, then the timeout.
LookBetween ==
  /\ place = "look"
  /\ IF Fault \/ elapsed THEN Finally("error") ELSE MoveTo("wait") /\ UNCHANGED outcome
  /\ UNCHANGED <<reader, data, gathered>> /\ ClosingUntouched

\* Mutant: a reader that failed counts as one that read everything.
EndedAnyhow(s) == HasRead(s)

\* _Lettore.concluso
Ended(s) == HasRead(s) /\ ~ failed[s]

Take ==
  /\ IF \A s \in Streams : Ended(s)
     THEN /\ gathered' = data
          /\ data' = [s \in Streams |-> Dropped]
          /\ MoveTo("decode")
          /\ UNCHANGED outcome
     ELSE Finally("error") /\ UNCHANGED <<gathered, data>>
  /\ UNCHANGED reader /\ ClosingUntouched

\* The readers are given _ATTESA_DEI_LETTORI seconds, which may be too few.
Gather == place = "gather" /\ Take

\* _success and _failure: nothing on stderr, and an envelope on stdout whose
\* status is the one the exit code calls for.
Decode ==
  /\ place = "decode"
  /\ \/ /\ gathered["stderr"] = 0
        /\ gathered["stdout"] > 0
        /\ Finally(IF child = "ok" THEN "success" ELSE "command")
        /\ gathered' = IF child = "ok" THEN gathered ELSE [s \in Streams |-> 0]
     \/ /\ Finally("error")
        /\ gathered' = [s \in Streams |-> 0]
  /\ UNCHANGED <<reader, data>> /\ ClosingUntouched

-----------------------------------------------------------------------------
(* _chiudi *)

\* What no step of _chiudi touches.
WorkUntouched ==
  UNCHANGED <<childVars, pipeVars, reader, strikes, endVars, gathered, outcome, replyVars>>

PollChild ==
  /\ place = "poll"
  /\ closing' = [closing EXCEPT !.alive = (child = "running")]
  /\ MoveTo(IF child = "running" THEN "kill" ELSE "repoll")
  /\ UNCHANGED <<ownVars, killVars>> /\ WorkUntouched

\* kill, terminate, kill: sent, or not.
Kill ==
  /\ place = "kill"
  /\ tried' = TRUE
  /\ \E sending \in BOOLEAN : closing' = [closing EXCEPT !.clean = @ /\ sending]
  /\ MoveTo("reap")
  /\ UNCHANGED <<ownVars, attempt>> /\ WorkUntouched

NextAttempt ==
  IF attempt < 2 THEN attempt' = attempt + 1 /\ MoveTo("kill")
  ELSE attempt' = 0 /\ MoveTo("repoll")

\* Each attempt waits for a limited time.
Reap ==
  /\ place = "reap"
  /\ IF child = "running" THEN NextAttempt ELSE attempt' = 0 /\ MoveTo("repoll")
  /\ UNCHANGED <<ownVars, tried, closing>> /\ WorkUntouched

\* The last look, and a limited wait for the readers.
Repoll ==
  /\ place = "repoll"
  /\ closing' = [closing EXCEPT !.alive = (child = "running"),
                                !.clean = @ /\ child # "running"]
  /\ MoveTo("claim")
  /\ UNCHANGED <<ownVars, killVars>> /\ WorkUntouched

\* The esito is built after the second pipe.
NextPipe(esito) ==
  IF stream = "stdout" THEN place' = "claim" /\ stream' = "stderr" /\ closing' = esito
  ELSE MoveTo("verdict") /\ closing' = [esito EXCEPT !.known = TRUE]

\* Mutant: an abandoned reader is claimed all the same.
ClaimableAlways(s) == TRUE

\* _Lettore.reclama: it has finished, or has no ident.
Claimable(s) == reader[s] \notin {"reading", "finishing"}

\* The pipe is left to its reader.
AbandonReader ==
  /\ data' = [data EXCEPT ![stream] = Dropped]
  /\ NextPipe([closing EXCEPT !.clean = FALSE])

Claim ==
  /\ place = "claim"
  /\ IF Claimable(stream) THEN place' = "close" /\ UNCHANGED <<stream, data, closing>>
     ELSE AbandonReader
  /\ UNCHANGED <<open, confirmed, killVars>> /\ WorkUntouched

\* close of a BufferedReader waits for a read of another thread, without limit.
Close ==
  /\ place = "close"
  /\ reader[stream] # "reading"
  /\ \/ /\ open' = [open EXCEPT ![stream] = FALSE]
        /\ place' = "confirm"
        /\ UNCHANGED <<stream, data, closing>>
     \/ /\ \E left \in BOOLEAN : open' = [open EXCEPT ![stream] = @ /\ left]
        /\ AbandonReader
  /\ UNCHANGED <<confirmed, killVars>> /\ WorkUntouched

\* chiuso_dal_chiamante, once close has returned.
Confirm ==
  /\ place = "confirm"
  /\ confirmed' = [confirmed EXCEPT ![stream] = TRUE]
  /\ NextPipe(closing)
  /\ UNCHANGED <<open, data, killVars>> /\ WorkUntouched

-----------------------------------------------------------------------------
(* The end of _esito and of run *)

\* Mutant: a closing that failed after a success is forgotten.
VerdictForgiving ==
  IF closing.interrupted THEN "interrupt" ELSE outcome

\* What _esito raises or returns.  A process left alive comes before every
\* other error, but not before an interruption or the answer of the command.
Verdict ==
  CASE outcome = "interrupt" -> "interrupt"
    [] outcome = "error" ->
         IF closing.known /\ closing.alive THEN "not_terminated" ELSE "error"
    [] OTHER ->
         IF closing.interrupted THEN "interrupt"
         ELSE IF outcome = "command" \/ closing.clean THEN outcome
         ELSE IF closing.alive THEN "not_terminated"
         ELSE "error"

\* The locals of _esito go with its frame.
Leaves(how, note) ==
  /\ reply' = how
  /\ noted' = note
  /\ closing' = NoClosing
  /\ outcome' = "none"
  /\ gathered' = IF how = "success" THEN gathered ELSE [s \in Streams |-> 0]
  /\ MoveTo("last")

Answer ==
  /\ place = "verdict"
  /\ Leaves(Verdict, Verdict = "interrupt" /\
                       (closing.interrupted \/ ~ closing.known \/ ~ closing.clean))
  /\ UNCHANGED <<childVars, pipeVars, reader, ownVars, strikes, endVars, killVars>>

\* _ultimo_tentativo: kill, and one more limited wait.
LastAttempt ==
  /\ place = "last"
  /\ tried' = (tried \/ child = "running")
  /\ MoveTo("release")
  /\ UNCHANGED <<ownVars, attempt, closing>> /\ WorkUntouched

ReleaseToken ==
  /\ place = "release"
  /\ token' = FALSE
  /\ MoveTo("conclude")
  /\ UNCHANGED <<childVars, pipeVars, reader, ownVars, strikes, concluded, killVars>>
  /\ UNCHANGED <<workVars, replyVars>>

Conclude ==
  /\ place = "conclude"
  /\ concluded' = TRUE
  /\ MoveTo("done")
  /\ UNCHANGED <<childVars, pipeVars, reader, ownVars, strikes, token, killVars>>
  /\ UNCHANGED <<workVars, replyVars>>

\* The caller of run lets go of the exception that kept the frame alive.
DropFrame ==
  /\ place = "done"
  /\ token
  /\ token' = FALSE
  /\ UNCHANGED <<childVars, pipeVars, reader, ownVars, strikes, placeVars, concluded>>
  /\ UNCHANGED <<killVars, workVars, replyVars>>

-----------------------------------------------------------------------------
(* An exception that is no Exception strikes the caller's thread *)

\* Not while Thread.start waits for a thread to begin, which the SDK excludes
\* (sdk/python/README.md:117).
StrikeWork ==
  /\ place \in Working
  /\ Finally("interrupt")
  /\ gathered' = [s \in Streams |-> 0]
  /\ \A s \in Streams : reader[s] # "launched"
  /\ UNCHANGED <<data, endVars, attempt, closing, replyVars>>

\* Collected by the handler of one step of _chiudi, which goes on.
StrikeCollected ==
  /\ place \in Closing
  /\ LET esito == [closing EXCEPT !.interrupted = TRUE, !.clean = FALSE,
                                  !.alive = @ \/ place \in {"poll", "repoll"}]
     IN  \/ place = "poll" /\ MoveTo("kill") /\ closing' = esito /\ UNCHANGED <<data, attempt>>
         \/ place = "kill" /\ MoveTo("reap") /\ closing' = esito /\ UNCHANGED <<data, attempt>>
         \/ place = "reap" /\ NextAttempt /\ closing' = esito /\ UNCHANGED data
         \/ place = "repoll" /\ MoveTo("claim") /\ closing' = esito /\ UNCHANGED <<data, attempt>>
         \/ /\ place \in {"claim", "close", "confirm"}
            /\ data' = [data EXCEPT ![stream] = Dropped]
            /\ NextPipe(esito)
            /\ UNCHANGED attempt
  /\ UNCHANGED <<endVars, gathered, outcome, replyVars>>

\* Between two steps of _chiudi: it ends without an esito.
StrikeEscapes ==
  /\ place \in Closing
  /\ outcome' = IF outcome = "error" THEN "error" ELSE "interrupt"
  /\ closing' = NoClosing
  /\ attempt' = 0
  /\ MoveTo("verdict")
  /\ UNCHANGED <<data, endVars, gathered, replyVars>>

\* On the way out of _esito, also before _chiudi.
StrikeVerdict ==
  /\ place \in {"poll", "verdict"}
  /\ Leaves("interrupt", FALSE)
  /\ UNCHANGED <<data, endVars, attempt>>

\* In the finally of run: added as a note to the exception there is.
StrikeFinally ==
  /\ place \in {"last", "conclude"}
  /\ reply' = IF reply = "success" THEN "interrupt" ELSE reply
  /\ noted' = (noted \/ reply # "success")
  /\ concluded' \in {concluded, place = "conclude"}
  /\ MoveTo(IF place = "last" THEN "release" ELSE "done")
  /\ UNCHANGED <<data, token, attempt, workVars>>

\* The frame stays as long as somebody keeps the exception.
StrikeRelease ==
  /\ place = "release"
  /\ reply' = "interrupt"
  /\ noted' = FALSE
  /\ MoveTo("done")
  /\ UNCHANGED <<data, endVars, attempt, workVars>>

Strike ==
  /\ strikes < MaxStrikes
  /\ strikes' = strikes + 1
  /\ \/ StrikeWork \/ StrikeCollected \/ StrikeEscapes
     \/ StrikeVerdict \/ StrikeFinally \/ StrikeRelease
  /\ UNCHANGED <<childVars, pipeVars, reader, open, confirmed, tried>>

-----------------------------------------------------------------------------
RunInitAt(there) ==
  /\ child = "running" /\ tardy = FALSE /\ elapsed = FALSE
  /\ grandchild \in BOOLEAN
  /\ strikes = 0
  /\ sent = [s \in Streams |-> 0] /\ pipe = [s \in Streams |-> 0]
  /\ open = [s \in Streams |-> TRUE]
  /\ reader = [s \in Streams |-> "new"]
  /\ data = [s \in Streams |-> 0]
  /\ failed = [s \in Streams |-> FALSE]
  /\ confirmed = [s \in Streams |-> FALSE]
  /\ concluded = FALSE /\ token = TRUE
  /\ place = there /\ stream = "stdout"
  /\ attempt = 0 /\ tried = FALSE
  /\ gathered = [s \in Streams |-> 0]
  /\ outcome = "none" /\ closing = NoClosing
  /\ reply = "none" /\ noted = FALSE

RunInit == RunInitAt("register")

ReaderStep(s) == Begin(s) \/ Read(s) \/ Finish(s) \/ Leave(s)

CallerStep ==
  \/ RegistraAvvio \/ Start \/ Started \/ Wait \/ LookBetween \/ Gather \/ Decode
  \/ PollChild \/ Kill \/ Reap \/ Repoll \/ Claim \/ Close \/ Confirm
  \/ Answer \/ LastAttempt \/ ReleaseToken \/ Conclude

RunWorld ==
  \/ \E s \in Streams : Write(s) \/ ReadFails(s)
  \/ \E how \in {"ok", "fail"} : Exit(how)
  \/ GrandchildExits \/ Expire \/ DropFrame

RunReturned == place = "done" /\ UNCHANGED runVars

RunNext == CallerStep \/ (\E s \in Streams : ReaderStep(s)) \/ RunWorld \/ Strike \/ RunReturned

RunSpec == RunInit /\ [][RunNext]_runVars

\* The threads of the SDK are scheduled, and waits with a timeout end.
\* Nothing makes the child or the grandchild write or exit.
FairRunSpec ==
  /\ RunSpec
  /\ WF_runVars(CallerStep)
  /\ \A s \in Streams : WF_runVars(ReaderStep(s))

-----------------------------------------------------------------------------
(* Properties *)

RunTypeOK ==
  /\ child \in {"running", "ok", "fail"} /\ grandchild \in BOOLEAN
  /\ elapsed \in BOOLEAN /\ tardy \in BOOLEAN
  /\ strikes \in 0 .. MaxStrikes
  /\ sent \in [Streams -> 0 .. MaxBlocks] /\ pipe \in [Streams -> 0 .. PipeRoom]
  /\ open \in [Streams -> BOOLEAN] /\ confirmed \in [Streams -> BOOLEAN]
  /\ reader \in [Streams -> {"new", "launched", "reading", "finishing", "finished", "gone"}]
  /\ data \in [Streams -> 0 .. MaxBlocks \cup {Dropped}]
  /\ failed \in [Streams -> BOOLEAN]
  /\ concluded \in BOOLEAN /\ token \in BOOLEAN
  /\ place \in Working \cup Closing \cup {"verdict", "last", "release", "conclude", "done"}
  /\ stream \in Streams
  /\ attempt \in 0 .. 2 /\ tried \in BOOLEAN
  /\ gathered \in [Streams -> 0 .. MaxBlocks]
  /\ outcome \in {"none", "success", "command", "error", "interrupt"}
  /\ closing \in Esiti
  /\ reply \in {"none", "success", "command", "error", "not_terminated", "interrupt"}
  /\ noted \in BOOLEAN

\* A success is the child's own: it exited with 0 before the timeout, every
\* byte it wrote was read, and both pipes were closed by the caller.
SuccessIsWhole ==
  reply = "success" =>
    /\ child = "ok" /\ ~ tardy
    /\ \A s \in Streams : gathered[s] = sent[s] /\ ~ open[s]

\* No pipe is closed while the other thread is inside a read of it, and the
\* caller never stands at the close of one: it would wait there without limit.
NeverClosesUnderReader ==
  \A s \in Streams :
    ~ open[s] \/ (place = "close" /\ stream = s) => reader[s] # "reading"

\* A child that outlives run is one run has named, one whose killing was tried
\* before an interruption took the answer away, or one noted on the exception:
\* it takes three interruptions to leave it behind in silence.
ChildIsNotForgotten ==
  place = "done" /\ child = "running" =>
    \/ reply = "not_terminated"
    \/ strikes > 0 /\ (tried \/ noted)
    \/ strikes > 2

\* Once run is over, every thread it started ends when its pipe does, and has
\* closed the pipe if the caller had not: also when the interruption that ended
\* run skipped conclusione.set().
ReadersEnd ==
  \A s \in Streams :
    (place = "done" /\ ~ token /\ ~ Writers)
      ~> (reader[s] = "new" \/ (reader[s] = "gone" /\ ~ open[s]))

\* run returns once the child has exited, the timeout has passed or a reader
\* has failed: whoever holds the pipes, and whatever survives the kill.
CallReturns == (child # "running" \/ elapsed \/ Fault) ~> place = "done"

=============================================================================
