---------------------------- MODULE NativeCommand ----------------------------
(***************************************************************************)
(* One call of the SDK's NativeRunner: esegui of plenora-io-py/src/lib.rs.  *)
(*                                                                         *)
(* The command runs in a thread of its own and sends its outcome over a    *)
(* channel.  The Python thread waits for it in short intervals and, after  *)
(* each, looks at the signals and at the timeout; either cancels the       *)
(* token, once, and the wait goes on until the command has stopped.        *)
(***************************************************************************)
VARIABLES
  command,    (* "running", what it sent, or "vanished" without sending    *)
  sigint,     (* a SIGINT has come: richiesta of _sigint_nativo            *)
  signal,     (* a signal has come whose handler raises                    *)
  expired,    (* the timeout has passed                                    *)
  cancelled,  (* cancellazione                                             *)
  scaduto,
  raised,     (* dal_segnale                                               *)
  at,         (* where the Python thread is                                *)
  atteso,     (* what recv_timeout returned                                *)
  late,       (* the outcome was received after the timeout                *)
  answer      (* what NativeRunner.run raises or returns                   *)

worldVars == <<command, sigint, signal, expired>>
vars == <<worldVars, cancelled, scaduto, raised, at, atteso, late, answer>>

Outcomes == {"success", "failure", "cancelled"}

-----------------------------------------------------------------------------
(* The thread of the command, the signals and the clock *)

\* A command past its last look at the token may end as it likes.
Send(outcome) ==
  /\ command = "running"
  /\ outcome = "cancelled" => cancelled
  /\ command' = outcome
  /\ UNCHANGED <<sigint, signal, expired, cancelled, scaduto, raised, at, atteso, late, answer>>

\* The sender is dropped and nothing was sent.
Vanish ==
  /\ command = "running"
  /\ command' = "vanished"
  /\ UNCHANGED <<sigint, signal, expired, cancelled, scaduto, raised, at, atteso, late, answer>>

\* The clock and the signals, until run has answered.
World ==
  /\ answer = "none"
  /\ \/ sigint' = TRUE /\ UNCHANGED <<signal, expired>>
     \/ signal' = TRUE /\ UNCHANGED <<sigint, expired>>
     \/ expired' = TRUE /\ UNCHANGED <<sigint, signal>>
  /\ UNCHANGED <<command, cancelled, scaduto, raised, at, atteso, late, answer>>

-----------------------------------------------------------------------------
(* The loop of esegui *)

\* recv_timeout: what is in the channel, its end, or nothing in time.
Receive ==
  /\ at = "receive"
  /\ atteso' = IF command = "running" THEN "nothing" ELSE command
  /\ late' = (expired /\ atteso' \in Outcomes)
  /\ at' = "look"
  /\ UNCHANGED <<worldVars, cancelled, scaduto, raised, answer>>

\* Mutant: the timeout is recorded, and the command left alone.
ExpiresQuietly ==
  /\ ~ signal /\ ~ sigint
  /\ scaduto' = (scaduto \/ expired)
  /\ UNCHANGED <<cancelled, raised>>

\* The deadline, when no signal has come.
Expires ==
  /\ ~ signal /\ ~ sigint
  /\ scaduto' = (scaduto \/ expired)
  /\ cancelled' = expired
  /\ UNCHANGED raised

\* A handler that raised, before the request of _sigint_nativo.
Interrupts ==
  /\ signal \/ sigint
  /\ raised' = signal
  /\ cancelled' = TRUE
  /\ UNCHANGED scaduto

Look ==
  /\ at = "look"
  /\ IF cancelled THEN UNCHANGED <<cancelled, scaduto, raised>> ELSE Interrupts \/ Expires
  /\ at' = "match"
  /\ UNCHANGED <<worldVars, atteso, late, answer>>

\* What run makes of an outcome.
AnswerTo(outcome) ==
  IF outcome = "vanished" THEN "error"
  ELSE IF raised THEN "raised"
  ELSE IF scaduto THEN "timeout"
  ELSE outcome

Return ==
  /\ answer' = AnswerTo(atteso)
  /\ at' = "done"
  /\ UNCHANGED <<worldVars, cancelled, scaduto, raised, atteso, late>>

Again ==
  /\ at' = "receive"
  /\ UNCHANGED <<worldVars, cancelled, scaduto, raised, atteso, late, answer>>

\* Mutant: a timeout or a signal answers without waiting for the command.
MatchImpatient ==
  at = "match" /\ IF atteso # "nothing" \/ raised \/ scaduto THEN Return ELSE Again

Match == at = "match" /\ IF atteso # "nothing" THEN Return ELSE Again

-----------------------------------------------------------------------------
InitAt(place) ==
  /\ command = "running" /\ sigint = FALSE /\ signal = FALSE /\ expired = FALSE
  /\ cancelled = FALSE /\ scaduto = FALSE /\ raised = FALSE
  /\ at = place /\ atteso = "nothing" /\ late = FALSE
  /\ answer = "none"

Init == InitAt("receive")

Command == (\E outcome \in Outcomes : Send(outcome)) \/ Vanish

PythonThread == Receive \/ Look \/ Match

Returned == at = "done" /\ UNCHANGED vars

Next == Command \/ World \/ PythonThread \/ Returned

Spec == Init /\ [][Next]_vars

\* The command looks at the token, so it ends once that is cancelled.  A
\* command nobody stops may run for ever.
FairSpec == Spec /\ WF_vars(PythonThread) /\ WF_vars(cancelled /\ Command)

-----------------------------------------------------------------------------
(* Properties *)

\* run answers only once the command has stopped, and no answer is made up: a
\* timeout has passed, a cancellation was asked for by SIGINT, an exception
\* comes from a handler, and a success is the command's own, received in time
\* unless a SIGINT came first.
AnswerIsDeserved ==
  answer # "none" =>
    /\ command # "running"
    /\ answer = "timeout" => expired
    /\ answer = "raised" => signal
    /\ answer = "cancelled" => sigint
    /\ answer = "success" => command = "success" /\ (late => sigint)

\* A SIGINT, a signal whose handler raises and the timeout all end the call.
StopIsAnswered == (sigint \/ signal \/ expired) ~> answer # "none"

\* A success received after the timeout is an error of timeout.
LateSuccessIsTimeout == answer = "success" => ~ late

=============================================================================
