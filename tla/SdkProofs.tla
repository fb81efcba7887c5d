------------------------------ MODULE SdkProofs ------------------------------
(***************************************************************************)
(* One call of the SDK, on each of its backends: what the caller of a      *)
(* Runner or a NativeRunner is told, whatever the order of the child or    *)
(* the command, the reader threads, the clock and the interruptions.       *)
(***************************************************************************)
EXTENDS NativeCommand, SdkRunner, TLAPS

-----------------------------------------------------------------------------
(* A Runner: the invariant of one call, for any number of blocks and strikes *)

AtWork  == place \in Working
AtClose == place \in Closing
Past    == {"last", "release", "conclude", "done"}

\* run is over only where its finally has come to the token.
OverLate == RunFinished => place \in {"conclude", "done"}

\* Until decode the readers hold what they read, and both pipes are open.
WorkHolds ==
  AtWork =>
    \A s \in Streams : open[s] /\ (place # "decode" => data[s] # Dropped)

\* outcome belongs to the closing, and reply to what comes after.
InTurn ==
  /\ outcome # "none" <=> AtClose \/ place = "verdict"
  /\ reply # "none" <=> place \in Past
  /\ place \notin {"kill", "reap"} => attempt = 0

\* No block is lost on its way.
Counted == \A s \in Streams : data[s] # Dropped => data[s] + pipe[s] = sent[s]

\* A reader that ended in good order has met the end of its pipe.
PastReading(s) == reader[s] \in {"finishing", "finished", "gone"}
EndIsEnd == \A s \in Streams : PastReading(s) /\ ~failed[s] => pipe[s] = 0 /\ ~Writers

\* The child has exited in time, and everything it wrote was gathered.
InTime == ~Writers /\ ~tardy
Whole  == InTime /\ \A s \in Streams : gathered[s] = sent[s]

WholeWhereNeeded ==
  /\ tardy => elapsed
  /\ place \in {"gather", "decode"} => child # "running" /\ ~tardy
  /\ place = "decode" => Whole
  /\ outcome = "success" \/ reply = "success" => child = "ok" /\ Whole
  /\ outcome = "command" => child # "running"

\* A closing that is clean so far has closed the pipes it is past.
CleanIsClosed ==
  /\ place = "confirm" => ~open[stream]
  /\ place \in {"claim", "close", "confirm"} /\ stream = "stderr" /\ closing.clean => ~open["stdout"]
  /\ place = "verdict" /\ outcome = "success" /\ closing.clean => \A s \in Streams : ~open[s]
  /\ reply = "success" => \A s \in Streams : ~open[s]

\* A pipe that is closed, or about to be, has no reader inside.
Outside(s) == reader[s] \in {"new", "finished", "gone"}
NobodyInside ==
  \A s \in Streams :
    /\ reader[s] = "launched" => place = "started" /\ stream = s
    /\ ~open[s] \/ (place = "close" /\ stream = s) => Outside(s)

\* Of a child that still runs: how far the attempts to kill it have come.
KillIsTried ==
  /\ place = "kill" => tried \/ strikes >= attempt
  /\ place = "reap" => tried \/ strikes >= attempt + 1
  /\ place \in {"repoll", "claim", "close", "confirm"} => tried \/ strikes > 2
  /\ place \in {"verdict", "last"} => tried \/ strikes > 0
  /\ place = "release" => tried \/ (noted /\ strikes > 1)
  /\ place \in {"conclude", "done"} => (strikes > 0 /\ (tried \/ noted)) \/ strikes > 2 \/ strikes = 0

\* Without a strike it is told as a process left alive.
AliveIsTold ==
  /\ AtClose \/ place = "verdict" => outcome = "error"
  /\ place \in {"claim", "close", "confirm"} => closing.alive
  /\ place = "verdict" => closing.known /\ closing.alive
  /\ place \in Past => reply = "not_terminated"

ChildIsFollowed ==
  child = "running" => KillIsTried /\ (strikes = 0 => AliveIsTold)

\* What the readers and the caller hold, and what becomes of pipes and child.
Flow == OverLate /\ WorkHolds /\ InTurn /\ Counted /\ EndIsEnd /\ WholeWhereNeeded
Ends == CleanIsClosed /\ NobodyInside /\ ChildIsFollowed

RunInv == RunTypeOK /\ Flow /\ Ends

LEMMA RunInitHolds == RunInit => RunInv
<1>. SUFFICES ASSUME RunInit PROVE RunInv
  OBVIOUS
<1>. USE SdkRunnerAssumption DEF RunInit, RunInitAt, Streams, Working, Closing
<1>1. RunTypeOK
  <2>1. NoClosing \in Esiti
    BY DEF Esiti, NoClosing
  <2>2. /\ grandchild \in BOOLEAN /\ elapsed \in BOOLEAN /\ tardy \in BOOLEAN
        /\ concluded \in BOOLEAN /\ token \in BOOLEAN /\ tried \in BOOLEAN /\ noted \in BOOLEAN
    OBVIOUS
  <2>. QED  BY <2>1, <2>2 DEF RunTypeOK, PipeRoom, Dropped
<1>2. Flow
  BY DEF Flow, OverLate, WorkHolds, InTurn, Counted, EndIsEnd, WholeWhereNeeded, RunFinished,
         AtWork, AtClose, Past, PastReading, Dropped
<1>3. Ends
  BY DEF Ends, CleanIsClosed, NobodyInside, ChildIsFollowed, Outside, KillIsTried, AliveIsTold,
         AtClose, Past
<1>. QED  BY <1>1, <1>2, <1>3 DEF RunInv

\* The two reader threads.
LEMMA ReadersKeep ==
  ASSUME RunInv, NEW s \in Streams, ReaderStep(s) \/ ReadFails(s)
  PROVE  RunInv'
<1>. USE SdkRunnerAssumption
    DEF RunInv, Flow, Ends, OverLate, WorkHolds, InTurn, Counted,
         EndIsEnd, WholeWhereNeeded, CleanIsClosed, NobodyInside, ChildIsFollowed, KillIsTried,
         AliveIsTold, AtWork, AtClose, Past, PastReading, InTime, Whole, Outside, Working,
         Closing, Streams, Writers, RunFinished, PipeRoom, Dropped,
         childVars, pipeVars, ownVars, endVars,
         placeVars, killVars, workVars, replyVars, callerVars
<1>1. CASE Begin(s)
  <2>1. RunTypeOK'
    BY <1>1 DEF RunTypeOK, Begin
  <2>2. Flow'
    BY <1>1 DEF RunTypeOK, Begin
  <2>3. Ends'
    BY <1>1 DEF RunTypeOK, Begin
  <2>. QED  BY <2>1, <2>2, <2>3
<1>2. CASE Read(s)
  <2>1. RunTypeOK'
    BY <1>2 DEF RunTypeOK, Read
  <2>2. Flow'
    BY <1>2 DEF RunTypeOK, Read
  <2>3. Ends'
    BY <1>2 DEF RunTypeOK, Read
  <2>. QED  BY <2>1, <2>2, <2>3
<1>3. CASE ReadFails(s)
  <2>1. RunTypeOK'
    BY <1>3 DEF RunTypeOK, ReadFails
  <2>2. Flow'
    BY <1>3 DEF RunTypeOK, ReadFails
  <2>3. Ends'
    BY <1>3 DEF RunTypeOK, ReadFails
  <2>. QED  BY <2>1, <2>2, <2>3
<1>4. CASE Finish(s)
  <2>1. RunTypeOK'
    BY <1>4 DEF RunTypeOK, Finish
  <2>2. Flow'
    BY <1>4 DEF RunTypeOK, Finish
  <2>3. Ends'
    BY <1>4 DEF RunTypeOK, Finish
  <2>. QED  BY <2>1, <2>2, <2>3
<1>5. CASE Leave(s)
  <2>1. RunTypeOK'
    BY <1>5 DEF RunTypeOK, Leave
  <2>2. Flow'
    BY <1>5 DEF RunTypeOK, Leave
  <2>3. Ends'
    BY <1>5 DEF RunTypeOK, Leave
  <2>. QED  BY <2>1, <2>2, <2>3
<1>. QED  BY <1>1, <1>2, <1>3, <1>4, <1>5 DEF ReaderStep

\* The child, its child and the clock.
LEMMA WorldKeeps ==
  ASSUME RunInv, \/ \E s \in Streams : Write(s)
         \/ \E how \in {"ok", "fail"} : Exit(how)
         \/ GrandchildExits \/ Expire \/ DropFrame
  PROVE  RunInv'
<1>. USE SdkRunnerAssumption
    DEF RunInv, Flow, Ends, OverLate, WorkHolds, InTurn, Counted,
         EndIsEnd, WholeWhereNeeded, CleanIsClosed, NobodyInside, ChildIsFollowed, KillIsTried,
         AliveIsTold, AtWork, AtClose, Past, PastReading, InTime, Whole, Outside, Working,
         Closing, Streams, Writers, RunFinished, PipeRoom, Dropped,
         childVars, pipeVars, ownVars, endVars,
         placeVars, killVars, workVars, replyVars, callerVars
<1>1. CASE \E s \in Streams : Write(s)
  <2>1. RunTypeOK'
    BY <1>1 DEF RunTypeOK, Write
  <2>2. Flow'
    BY <1>1 DEF RunTypeOK, Write
  <2>3. Ends'
    BY <1>1 DEF RunTypeOK, Write
  <2>. QED  BY <2>1, <2>2, <2>3
<1>2. CASE \E how \in {"ok", "fail"} : Exit(how)
  <2>1. RunTypeOK'
    BY <1>2 DEF RunTypeOK, Exit
  <2>2. Flow'
    BY <1>2 DEF RunTypeOK, Exit
  <2>3. Ends'
    BY <1>2 DEF RunTypeOK, Exit
  <2>. QED  BY <2>1, <2>2, <2>3
<1>3. CASE GrandchildExits
  <2>0. grandchild' \in BOOLEAN
    BY <1>3 DEF GrandchildExits
  <2>1. RunTypeOK'
    BY <1>3, <2>0 DEF RunTypeOK, GrandchildExits
  <2>2. Flow'
    BY <1>3 DEF RunTypeOK, GrandchildExits
  <2>3. Ends'
    BY <1>3 DEF RunTypeOK, GrandchildExits
  <2>. QED  BY <2>1, <2>2, <2>3
<1>4. CASE Expire
  <2>1. RunTypeOK'
    BY <1>4 DEF RunTypeOK, Expire
  <2>2. Flow'
    BY <1>4 DEF RunTypeOK, Expire
  <2>3. Ends'
    BY <1>4 DEF RunTypeOK, Expire
  <2>. QED  BY <2>1, <2>2, <2>3
<1>5. CASE DropFrame
  <2>0. token' \in BOOLEAN
    BY <1>5 DEF DropFrame
  <2>1. RunTypeOK'
    BY <1>5, <2>0 DEF RunTypeOK, DropFrame
  <2>2. Flow'
    BY <1>5 DEF RunTypeOK, DropFrame
  <2>3. Ends'
    BY <1>5 DEF RunTypeOK, DropFrame
  <2>. QED  BY <2>1, <2>2, <2>3
<1>. QED  BY <1>1, <1>2, <1>3, <1>4, <1>5

\* The try of _esito: to the end of decode.
LEMMA WorkKeeps ==
  ASSUME RunInv, \/ RegistraAvvio \/ Start \/ Started \/ Wait \/ LookBetween \/ Gather \/ Decode
  PROVE  RunInv'
<1>. USE SdkRunnerAssumption
    DEF RunInv, Flow, Ends, OverLate, WorkHolds, InTurn, Counted,
         EndIsEnd, WholeWhereNeeded, CleanIsClosed, NobodyInside, ChildIsFollowed, KillIsTried,
         AliveIsTold, AtWork, AtClose, Past, PastReading, InTime, Whole, Outside, Working,
         Closing, Streams, Writers, RunFinished, PipeRoom, Dropped,
         childVars, pipeVars, ownVars, endVars,
         placeVars, killVars, workVars, replyVars, callerVars
<1>1. CASE RegistraAvvio
  <2>1. RunTypeOK'
    BY <1>1 DEF RunTypeOK, RegistraAvvio, Finally, MoveTo, ClosingUntouched
  <2>2. Flow'
    BY <1>1 DEF RunTypeOK, RegistraAvvio, Finally, MoveTo, ClosingUntouched
  <2>3. Ends'
    BY <1>1 DEF RunTypeOK, RegistraAvvio, Finally, MoveTo, ClosingUntouched
  <2>. QED  BY <2>1, <2>2, <2>3
<1>2. CASE Start
  <2>1. RunTypeOK'
    BY <1>2 DEF RunTypeOK, Start, Finally, MoveTo, ClosingUntouched
  <2>2. Flow'
    BY <1>2 DEF RunTypeOK, Start, Finally, MoveTo, ClosingUntouched
  <2>3. Ends'
    BY <1>2 DEF RunTypeOK, Start, Finally, MoveTo, ClosingUntouched
  <2>. QED  BY <2>1, <2>2, <2>3
<1>3. CASE Started
  <2>1. RunTypeOK'
    BY <1>3 DEF RunTypeOK, Started, Finally, MoveTo, ClosingUntouched
  <2>2. Flow'
    BY <1>3 DEF RunTypeOK, Started, Finally, MoveTo, ClosingUntouched
  <2>3. Ends'
    BY <1>3 DEF RunTypeOK, Started, Finally, MoveTo, ClosingUntouched
  <2>. QED  BY <2>1, <2>2, <2>3
<1>4. CASE Wait
  <2>1. RunTypeOK'
    BY <1>4 DEF RunTypeOK, Wait, Finally, MoveTo, ClosingUntouched
  <2>2. Flow'
    BY <1>4 DEF RunTypeOK, Wait, Finally, MoveTo, ClosingUntouched
  <2>3. Ends'
    BY <1>4 DEF RunTypeOK, Wait, Finally, MoveTo, ClosingUntouched
  <2>. QED  BY <2>1, <2>2, <2>3
<1>5. CASE LookBetween
  <2>1. RunTypeOK'
    BY <1>5 DEF RunTypeOK, LookBetween, Finally, MoveTo, ClosingUntouched
  <2>2. Flow'
    BY <1>5 DEF RunTypeOK, LookBetween, Finally, MoveTo, ClosingUntouched
  <2>3. Ends'
    BY <1>5 DEF RunTypeOK, LookBetween, Finally, MoveTo, ClosingUntouched
  <2>. QED  BY <2>1, <2>2, <2>3
<1>6. CASE Gather
  <2>0. \A s \in Streams : data[s] # Dropped
    BY <1>6 DEF Gather
  <2>1. RunTypeOK'
    BY <1>6, <2>0 DEF RunTypeOK, Gather, Take, Finally, MoveTo, ClosingUntouched
  <2>2. Flow'
    BY <1>6 DEF RunTypeOK, Gather, Take, Ended, HasRead, Finally, MoveTo, ClosingUntouched
  <2>3. Ends'
    BY <1>6 DEF RunTypeOK, Gather, Take, Ended, HasRead, Finally, MoveTo, ClosingUntouched
  <2>. QED  BY <2>1, <2>2, <2>3
<1>7. CASE Decode
  <2>1. RunTypeOK'
    BY <1>7 DEF RunTypeOK, Decode, Finally, MoveTo, ClosingUntouched
  <2>2. Flow'
    BY <1>7 DEF RunTypeOK, Decode, Finally, MoveTo, ClosingUntouched
  <2>3. Ends'
    BY <1>7 DEF RunTypeOK, Decode, Finally, MoveTo, ClosingUntouched
  <2>. QED  BY <2>1, <2>2, <2>3
<1>. QED  BY <1>1, <1>2, <1>3, <1>4, <1>5, <1>6, <1>7

\* _chiudi, as far as the child goes.
LEMMA KillKeeps ==
  ASSUME RunInv, PollChild \/ Kill \/ Reap \/ Repoll
  PROVE  RunInv'
<1>. USE SdkRunnerAssumption
    DEF RunInv, Flow, Ends, OverLate, WorkHolds, InTurn, Counted,
         EndIsEnd, WholeWhereNeeded, CleanIsClosed, NobodyInside, ChildIsFollowed, KillIsTried,
         AliveIsTold, AtWork, AtClose, Past, PastReading, InTime, Whole, Outside, Working,
         Closing, Streams, Writers, RunFinished, PipeRoom, Dropped,
         childVars, pipeVars, ownVars, endVars,
         placeVars, killVars, workVars, replyVars, callerVars
<1>1. CASE PollChild
  <2>0. closing' \in Esiti
    BY <1>1 DEF RunTypeOK, Esiti, PollChild, MoveTo, WorkUntouched
  <2>1. RunTypeOK'
    BY <1>1, <2>0 DEF RunTypeOK, PollChild, MoveTo, WorkUntouched
  <2>2. Flow'
    BY <1>1 DEF RunTypeOK, PollChild, MoveTo, WorkUntouched
  <2>3. Ends'
    BY <1>1 DEF RunTypeOK, Esiti, PollChild, MoveTo, WorkUntouched
  <2>. QED  BY <2>1, <2>2, <2>3
<1>2. CASE Kill
  <2>0. closing' \in Esiti
    BY <1>2 DEF RunTypeOK, Esiti, Kill, MoveTo, WorkUntouched
  <2>1. RunTypeOK'
    BY <1>2, <2>0 DEF RunTypeOK, Kill, MoveTo, WorkUntouched
  <2>2. Flow'
    BY <1>2 DEF RunTypeOK, Kill, MoveTo, WorkUntouched
  <2>3. Ends'
    BY <1>2 DEF RunTypeOK, Esiti, Kill, MoveTo, WorkUntouched
  <2>. QED  BY <2>1, <2>2, <2>3
<1>3. CASE Reap
  <2>1. RunTypeOK'
    BY <1>3 DEF RunTypeOK, Reap, NextAttempt, MoveTo, WorkUntouched
  <2>2. Flow'
    BY <1>3 DEF RunTypeOK, Reap, NextAttempt, MoveTo, WorkUntouched
  <2>3. Ends'
    BY <1>3 DEF RunTypeOK, Reap, NextAttempt, MoveTo, WorkUntouched
  <2>. QED  BY <2>1, <2>2, <2>3
<1>4. CASE Repoll
  <2>0. closing' \in Esiti
    BY <1>4 DEF RunTypeOK, Esiti, Repoll, MoveTo, WorkUntouched
  <2>1. RunTypeOK'
    BY <1>4, <2>0 DEF RunTypeOK, Repoll, MoveTo, WorkUntouched
  <2>2. Flow'
    BY <1>4 DEF RunTypeOK, Repoll, MoveTo, WorkUntouched
  <2>3. Ends'
    BY <1>4 DEF RunTypeOK, Esiti, Repoll, MoveTo, WorkUntouched
  <2>. QED  BY <2>1, <2>2, <2>3
<1>. QED  BY <1>1, <1>2, <1>3, <1>4

\* What becomes of the esito at the next pipe.
LEMMA NextPipeMoves ==
  ASSUME NEW esito \in Esiti, NextPipe(esito), stream \in Streams
  PROVE  /\ closing' \in Esiti /\ stream' \in Streams
         /\ closing'.alive = esito.alive /\ closing'.clean = esito.clean
         /\ \/ stream = "stdout" /\ place' = "claim" /\ stream' = "stderr"
            \/ stream = "stderr" /\ place' = "verdict" /\ stream' = "stdout" /\ closing'.known
BY DEF NextPipe, MoveTo, Esiti, Streams

\* A pipe that is left to its reader: the closing is not clean.
LEMMA AbandonKeeps ==
  ASSUME RunInv, place \in {"claim", "close"}, AbandonReader, WorkUntouched,
         UNCHANGED <<confirmed, killVars>>,
         open' \in [Streams -> BOOLEAN],
         \A s \in Streams :
           open'[s] = open[s] \/ (~open'[s] /\ s = stream /\ place = "close")
  PROVE  RunInv'
<1>. DEFINE esito == [closing EXCEPT !.clean = FALSE]
<1>1. esito \in Esiti /\ esito.alive = closing.alive /\ ~esito.clean
  BY DEF RunInv, RunTypeOK, Esiti
<1>2. NextPipe(esito) /\ data' = [data EXCEPT ![stream] = Dropped]
  BY DEF AbandonReader
<1>. HIDE DEF esito
<1>3. stream \in Streams
  BY DEF RunInv, RunTypeOK
<1>. USE <1>1, <1>2, <1>3, NextPipeMoves, SdkRunnerAssumption
    DEF RunInv, Flow, Ends, OverLate, WorkHolds, InTurn, Counted,
         EndIsEnd, WholeWhereNeeded, CleanIsClosed, NobodyInside, ChildIsFollowed, KillIsTried,
         AliveIsTold, AtWork, AtClose, Past, PastReading, InTime, Whole, Outside, Working,
         Closing, Streams, Writers, RunFinished, PipeRoom, Dropped,
         childVars, pipeVars, ownVars, endVars,
         placeVars, killVars, workVars, replyVars, callerVars, WorkUntouched
<1>4. RunTypeOK'
  BY DEF RunTypeOK
<1>5. Flow'
  BY DEF RunTypeOK
<1>6. Ends'
  BY DEF RunTypeOK
<1>. QED  BY <1>4, <1>5, <1>6

\* _chiudi, as far as the pipes go.
LEMMA PipesKeep == ASSUME RunInv, Claim \/ Close \/ Confirm PROVE RunInv'
<1>. USE SdkRunnerAssumption
    DEF RunInv, Flow, Ends, OverLate, WorkHolds, InTurn, Counted,
         EndIsEnd, WholeWhereNeeded, CleanIsClosed, NobodyInside, ChildIsFollowed, KillIsTried,
         AliveIsTold, AtWork, AtClose, Past, PastReading, InTime, Whole, Outside, Working,
         Closing, Streams, Writers, RunFinished, PipeRoom, Dropped,
         childVars, pipeVars, ownVars, endVars,
         placeVars, killVars, workVars, replyVars, callerVars
<1>1. CASE Claim /\ Claimable(stream)
  <2>1. RunTypeOK'
    BY <1>1 DEF RunTypeOK, Claim, WorkUntouched
  <2>2. Flow'
    BY <1>1 DEF RunTypeOK, Claim, WorkUntouched
  <2>3. Ends'
    BY <1>1 DEF RunTypeOK, Claim, Claimable, WorkUntouched
  <2>. QED  BY <2>1, <2>2, <2>3
<1>2. CASE Claim /\ ~Claimable(stream)
  BY <1>2, AbandonKeeps DEF RunTypeOK, Claim, WorkUntouched
<1>3. CASE Close /\ place' = "confirm"
  <2>1. /\ open' = [open EXCEPT ![stream] = FALSE]
        /\ UNCHANGED <<stream, data, closing>>
    BY <1>3 DEF Close, AbandonReader, NextPipe, MoveTo
  <2>2. RunTypeOK'
    BY <1>3, <2>1 DEF RunTypeOK, Close, WorkUntouched
  <2>3. Flow'
    BY <1>3, <2>1 DEF RunTypeOK, Close, WorkUntouched
  <2>4. Ends'
    BY <1>3, <2>1 DEF RunTypeOK, Close, WorkUntouched
  <2>. QED  BY <2>2, <2>3, <2>4
<1>4. CASE Close /\ place' # "confirm"
  <2>1. AbandonReader /\ \E left \in BOOLEAN : open' = [open EXCEPT ![stream] = @ /\ left]
    BY <1>4 DEF Close
  <2>2. open' \in [Streams -> BOOLEAN]
    BY <2>1 DEF RunTypeOK
  <2>3. \A s \in Streams : open'[s] = open[s] \/ (~open'[s] /\ s = stream)
    BY <2>1 DEF RunTypeOK
  <2>. QED  BY <1>4, <2>1, <2>2, <2>3, AbandonKeeps DEF Close, WorkUntouched
<1>5. CASE Confirm
  <2>1. NextPipe(closing) /\ closing \in Esiti /\ stream \in Streams
    BY <1>5 DEF Confirm, RunTypeOK
  <2>2. RunTypeOK'
    BY <1>5, <2>1, NextPipeMoves DEF RunTypeOK, Confirm, WorkUntouched
  <2>3. Flow'
    BY <1>5, <2>1, NextPipeMoves DEF RunTypeOK, Confirm, WorkUntouched
  <2>4. Ends'
    BY <1>5, <2>1, NextPipeMoves DEF RunTypeOK, Confirm, WorkUntouched
  <2>. QED  BY <2>2, <2>3, <2>4
<1>. QED  BY <1>1, <1>2, <1>3, <1>4, <1>5

\* The end of _esito, and the finally of run.
LEMMA EndKeeps ==
  ASSUME RunInv, Answer \/ LastAttempt \/ ReleaseToken \/ Conclude
  PROVE  RunInv'
<1>. USE SdkRunnerAssumption
    DEF RunInv, Flow, Ends, OverLate, WorkHolds, InTurn, Counted,
         EndIsEnd, WholeWhereNeeded, CleanIsClosed, NobodyInside, ChildIsFollowed, KillIsTried,
         AliveIsTold, AtWork, AtClose, Past, PastReading, InTime, Whole, Outside, Working,
         Closing, Streams, Writers, RunFinished, PipeRoom, Dropped,
         childVars, pipeVars, ownVars, endVars,
         placeVars, killVars, workVars, replyVars, callerVars
<1>1. CASE Answer
  <2>0. closing' \in Esiti
    BY <1>1 DEF RunTypeOK, Esiti, Answer, Leaves, Verdict, NoClosing, MoveTo
  <2>1. RunTypeOK'
    BY <1>1, <2>0 DEF RunTypeOK, Answer, Leaves, Verdict, NoClosing, MoveTo
  <2>2. Flow'
    BY <1>1 DEF RunTypeOK, Answer, Leaves, Verdict, NoClosing, MoveTo
  <2>3. Ends'
    BY <1>1 DEF RunTypeOK, Esiti, Answer, Leaves, Verdict, NoClosing, MoveTo
  <2>. QED  BY <2>1, <2>2, <2>3
<1>2. CASE LastAttempt
  <2>1. RunTypeOK'
    BY <1>2 DEF RunTypeOK, LastAttempt, MoveTo, WorkUntouched
  <2>2. Flow'
    BY <1>2 DEF RunTypeOK, LastAttempt, MoveTo, WorkUntouched
  <2>3. Ends'
    BY <1>2 DEF RunTypeOK, LastAttempt, MoveTo, WorkUntouched
  <2>. QED  BY <2>1, <2>2, <2>3
<1>3. CASE ReleaseToken
  <2>0. token' \in BOOLEAN
    BY <1>3 DEF ReleaseToken, MoveTo
  <2>1. RunTypeOK'
    BY <1>3, <2>0 DEF RunTypeOK, ReleaseToken, MoveTo
  <2>2. Flow'
    BY <1>3 DEF RunTypeOK, ReleaseToken, MoveTo
  <2>3. Ends'
    BY <1>3 DEF RunTypeOK, ReleaseToken, MoveTo
  <2>. QED  BY <2>1, <2>2, <2>3
<1>4. CASE Conclude
  <2>1. RunTypeOK'
    BY <1>4 DEF RunTypeOK, Conclude, MoveTo
  <2>2. Flow'
    BY <1>4 DEF RunTypeOK, Conclude, MoveTo
  <2>3. Ends'
    BY <1>4 DEF RunTypeOK, Conclude, MoveTo
  <2>. QED  BY <2>1, <2>2, <2>3
<1>. QED  BY <1>1, <1>2, <1>3, <1>4

\* An exception in the caller's thread.
LEMMA StrikeKeeps == ASSUME RunInv, Strike PROVE RunInv'
<1>. USE SdkRunnerAssumption
    DEF RunInv, Flow, Ends, OverLate, WorkHolds, InTurn, Counted,
         EndIsEnd, WholeWhereNeeded, CleanIsClosed, NobodyInside, ChildIsFollowed, KillIsTried,
         AliveIsTold, AtWork, AtClose, Past, PastReading, InTime, Whole, Outside, Working,
         Closing, Streams, Writers, RunFinished, PipeRoom, Dropped,
         childVars, pipeVars, ownVars, endVars,
         placeVars, killVars, workVars, replyVars, callerVars
<1>. USE DEF Strike
<1>1. CASE StrikeWork
  <2>1. RunTypeOK'
    BY <1>1 DEF RunTypeOK, StrikeWork, Finally, MoveTo
  <2>2. Flow'
    BY <1>1 DEF RunTypeOK, StrikeWork, Finally, MoveTo
  <2>3. Ends'
    BY <1>1 DEF RunTypeOK, StrikeWork, Finally, MoveTo
  <2>. QED  BY <2>1, <2>2, <2>3
<1>2. CASE StrikeCollected
  <2>. DEFINE esito == [closing EXCEPT !.interrupted = TRUE, !.clean = FALSE,
                                       !.alive = @ \/ place \in {"poll", "repoll"}]
  <2>1. esito \in Esiti /\ ~esito.clean
    BY DEF RunTypeOK, Esiti
  <2>2. /\ \/ place = "poll" /\ MoveTo("kill") /\ closing' = esito /\ UNCHANGED <<data, attempt>>
           \/ place = "kill" /\ MoveTo("reap") /\ closing' = esito /\ UNCHANGED <<data, attempt>>
           \/ place = "reap" /\ NextAttempt /\ closing' = esito /\ UNCHANGED data
           \/ place = "repoll" /\ MoveTo("claim") /\ closing' = esito /\ UNCHANGED <<data, attempt>>
           \/ /\ place \in {"claim", "close", "confirm"}
              /\ data' = [data EXCEPT ![stream] = Dropped]
              /\ NextPipe(esito) /\ UNCHANGED attempt
        /\ UNCHANGED <<endVars, gathered, outcome, replyVars>>
    BY <1>2 DEF StrikeCollected
  <2>. HIDE DEF esito
  <2>3. stream \in Streams
    BY DEF RunTypeOK
  <2>4. RunTypeOK'
    BY <2>1, <2>2, <2>3, NextPipeMoves DEF RunTypeOK, NextAttempt, MoveTo
  <2>5. Flow'
    BY <2>1, <2>2, <2>3, NextPipeMoves DEF RunTypeOK, NextAttempt, MoveTo
  <2>6. Ends'
    BY <2>1, <2>2, <2>3, NextPipeMoves DEF RunTypeOK, NextAttempt, MoveTo
  <2>. QED  BY <2>4, <2>5, <2>6
<1>3. CASE StrikeEscapes
  <2>0. closing' \in Esiti
    BY <1>3 DEF StrikeEscapes, NoClosing, Esiti
  <2>1. RunTypeOK'
    BY <1>3, <2>0 DEF RunTypeOK, StrikeEscapes, MoveTo
  <2>2. Flow'
    BY <1>3 DEF RunTypeOK, StrikeEscapes, MoveTo
  <2>3. Ends'
    BY <1>3 DEF RunTypeOK, StrikeEscapes, MoveTo
  <2>. QED  BY <2>1, <2>2, <2>3
<1>4. CASE StrikeVerdict
  <2>0. closing' \in Esiti /\ noted' \in BOOLEAN
    BY <1>4 DEF StrikeVerdict, Leaves, NoClosing, Esiti
  <2>1. RunTypeOK'
    BY <1>4, <2>0 DEF RunTypeOK, StrikeVerdict, Leaves, MoveTo
  <2>2. Flow'
    BY <1>4 DEF RunTypeOK, StrikeVerdict, Leaves, MoveTo
  <2>3. Ends'
    BY <1>4 DEF RunTypeOK, StrikeVerdict, Leaves, MoveTo
  <2>. QED  BY <2>1, <2>2, <2>3
<1>5. CASE StrikeFinally
  <2>0. noted' \in BOOLEAN /\ concluded' \in BOOLEAN
    BY <1>5 DEF StrikeFinally, RunTypeOK
  <2>1. /\ \/ place = "last" /\ place' = "release"
           \/ place = "conclude" /\ place' = "done"
        /\ stream' = "stdout"
    BY <1>5 DEF StrikeFinally, MoveTo
  <2>2. child = "running" => noted' = TRUE
    <3>1. child = "running" => reply # "success"
      OBVIOUS
    <3>. QED  BY <1>5, <3>1 DEF StrikeFinally
  <2>3. RunTypeOK'
    BY <1>5, <2>0, <2>1 DEF RunTypeOK, StrikeFinally
  <2>4. Flow'
    BY <1>5, <2>1 DEF RunTypeOK, StrikeFinally
  <2>5. (CleanIsClosed /\ NobodyInside)'
    BY <1>5, <2>1 DEF RunTypeOK, StrikeFinally
  <2>6. ChildIsFollowed'
    BY <1>5, <2>1, <2>2 DEF RunTypeOK, StrikeFinally
  <2>. QED  BY <2>3, <2>4, <2>5, <2>6
<1>6. CASE StrikeRelease
  <2>0. noted' \in BOOLEAN
    BY <1>6 DEF StrikeRelease
  <2>1. RunTypeOK'
    BY <1>6, <2>0 DEF RunTypeOK, StrikeRelease, MoveTo
  <2>2. Flow'
    BY <1>6 DEF RunTypeOK, StrikeRelease, MoveTo
  <2>3. Ends'
    BY <1>6 DEF RunTypeOK, StrikeRelease, MoveTo
  <2>. QED  BY <2>1, <2>2, <2>3
<1>. QED  BY <1>1, <1>2, <1>3, <1>4, <1>5, <1>6

LEMMA RunStepHolds == RunInv /\ [RunNext]_runVars => RunInv'
<1>. SUFFICES ASSUME RunInv, [RunNext]_runVars PROVE RunInv'
  OBVIOUS
<1>1. CASE CallerStep
  BY <1>1, WorkKeeps, KillKeeps, PipesKeep, EndKeeps DEF CallerStep
<1>2. CASE \E s \in Streams : ReaderStep(s) \/ ReadFails(s)
  BY <1>2, ReadersKeep
<1>3. CASE \/ \E s \in Streams : Write(s)
           \/ \E how \in {"ok", "fail"} : Exit(how)
           \/ GrandchildExits \/ Expire \/ DropFrame
  BY <1>3, WorldKeeps
<1>4. CASE Strike
  BY <1>4, StrikeKeeps
<1>5. CASE UNCHANGED runVars
  <2>. USE SdkRunnerAssumption
      DEF RunInv, Flow, Ends, OverLate, WorkHolds, InTurn, Counted,
           EndIsEnd, WholeWhereNeeded, CleanIsClosed, NobodyInside, ChildIsFollowed, KillIsTried,
           AliveIsTold, AtWork, AtClose, Past, PastReading, InTime, Whole, Outside, Working,
           Closing, Streams, Writers, RunFinished, PipeRoom, Dropped,
           childVars, pipeVars, ownVars, endVars,
           placeVars, killVars, workVars, replyVars, callerVars
  <2>. USE <1>5 DEF runVars
  <2>1. RunTypeOK'
    BY DEF RunTypeOK
  <2>2. Flow'
    OBVIOUS
  <2>3. Ends'
    OBVIOUS
  <2>. QED  BY <2>1, <2>2, <2>3
<1>. QED  BY <1>1, <1>2, <1>3, <1>4, <1>5 DEF RunNext, RunWorld, RunReturned

LEMMA RunInvariant == RunSpec => []RunInv
BY RunInitHolds, RunStepHolds, PTL DEF RunSpec

-----------------------------------------------------------------------------
(* A Runner: what follows *)

\* Whatever the readers, the clock and the interruptions do, a call of Runner
\* that returns a result is one whose child exited with 0 in time, whose two
\* pipes were read to their end and closed (_attendi, prendi and _chiudi).
THEOREM SuccessWhole == RunSpec => []SuccessIsWhole
<1>1. RunInv => SuccessIsWhole
  BY DEF RunInv, Flow, Ends, WholeWhereNeeded, CleanIsClosed, SuccessIsWhole, Whole, InTime
<1>. QED  BY <1>1, RunInvariant, PTL

\* The caller closes no pipe a reader thread is inside of, and never waits at
\* the close of one: reclama says no, and the thread closes it (_Lettore).
THEOREM ClosesOutsideReaders == RunSpec => []NeverClosesUnderReader
<1>1. RunInv => NeverClosesUnderReader
  BY DEF RunInv, Ends, NobodyInside, NeverClosesUnderReader, Outside
<1>. QED  BY <1>1, RunInvariant, PTL

\* However many exceptions strike the caller, a child that outlives run was
\* reported, its killing was tried or it is noted on the exception; three
\* strikes are needed to lose it (_chiudi, _ultimo_tentativo and run).
THEOREM ChildFollowed == RunSpec => []ChildIsNotForgotten
<1>1. RunInv => ChildIsNotForgotten
  <2>. SUFFICES ASSUME RunInv, place = "done", child = "running"
                PROVE  \/ reply = "not_terminated"
                       \/ strikes > 0 /\ (tried \/ noted)
                       \/ strikes > 2
    BY DEF ChildIsNotForgotten
  <2>. QED  BY DEF RunInv, Ends, ChildIsFollowed, KillIsTried, AliveIsTold, Past
<1>. QED  BY <1>1, RunInvariant, PTL

-----------------------------------------------------------------------------
(* A NativeRunner: what the caller is told *)

Types ==
  /\ command \in Outcomes \cup {"running", "vanished"}
  /\ atteso \in Outcomes \cup {"nothing", "vanished"}
  /\ at \in {"receive", "look", "match", "done"}
  /\ sigint \in BOOLEAN /\ signal \in BOOLEAN /\ expired \in BOOLEAN
  /\ cancelled \in BOOLEAN /\ scaduto \in BOOLEAN /\ raised \in BOOLEAN
  /\ late \in BOOLEAN

\* What esegui has noted has happened, and nothing else cancels the token.
Noted ==
  /\ scaduto => expired
  /\ raised => signal
  /\ cancelled => sigint \/ scaduto \/ raised

\* What esegui received is what the command sent; the command says that it
\* was cancelled only after the token was.
Received ==
  /\ command = "cancelled" => cancelled
  /\ atteso # "nothing" => atteso = command

\* An outcome received late has met the look at the timeout, unless a signal
\* was seen before or in the same look.
LateIsNoted ==
  /\ late => expired
  /\ at \in {"match", "done"} /\ late => scaduto \/ raised \/ sigint

\* Nothing is looked at after the answer.
Answered == answer # "none" => at = "done"

IInv == Types /\ Noted /\ Received /\ LateIsNoted /\ Answered /\ AnswerIsDeserved

LEMMA InitHolds == Init => IInv
BY DEF Init, InitAt, IInv, Types, Noted, Received, LateIsNoted, Answered, AnswerIsDeserved, Outcomes

\* The answer is given in the last step, to an outcome that was received.
LEMMA ReturnIsDeserved ==
  ASSUME IInv, at = "match", atteso # "nothing", Return
  PROVE  AnswerIsDeserved'
<1>1. command # "running" /\ atteso = command /\ command' = command /\ late' = late
  BY DEF IInv, Types, Received, Outcomes, Return, worldVars
<1>2. UNCHANGED <<sigint, signal, expired, cancelled, scaduto, raised>>
  BY DEF Return, worldVars
<1>3. CASE atteso = "vanished"
  BY <1>1, <1>2, <1>3 DEF Return, AnswerTo, AnswerIsDeserved
<1>4. CASE atteso # "vanished" /\ raised
  BY <1>1, <1>2, <1>4 DEF Return, AnswerTo, AnswerIsDeserved, IInv, Noted
<1>5. CASE atteso # "vanished" /\ ~raised /\ scaduto
  BY <1>1, <1>2, <1>5 DEF Return, AnswerTo, AnswerIsDeserved, IInv, Noted
<1>6. CASE atteso # "vanished" /\ ~raised /\ ~scaduto
  <2>1. answer' = command /\ command \in Outcomes
    BY <1>1, <1>6 DEF Return, AnswerTo, IInv, Types
  <2>2. command = "cancelled" => sigint
    BY <1>6 DEF IInv, Received, Noted
  <2>3. late => sigint
    BY <1>6 DEF IInv, LateIsNoted
  <2>. QED  BY <1>1, <1>2, <2>1, <2>2, <2>3 DEF AnswerIsDeserved, Outcomes
<1>. QED  BY <1>3, <1>4, <1>5, <1>6

LEMMA StepHolds == IInv /\ [Next]_vars => IInv'
<1>. SUFFICES ASSUME IInv, [Next]_vars PROVE IInv'
  OBVIOUS
<1>. USE DEF IInv, Types, Noted, Received, LateIsNoted, Answered
<1>1. CASE Command
  <2>1. command = "running" /\ command' \in Outcomes \cup {"vanished"}
    BY <1>1 DEF Command, Send, Vanish
  <2>2. command' = "cancelled" => cancelled
    BY <1>1 DEF Command, Send, Vanish
  <2>3. UNCHANGED <<sigint, signal, expired, cancelled, scaduto, raised, at, atteso, late, answer>>
    BY <1>1 DEF Command, Send, Vanish
  <2>4. atteso = "nothing" /\ answer = "none"
    BY <2>1 DEF AnswerIsDeserved, Outcomes
  <2>. QED  BY <2>1, <2>2, <2>3, <2>4 DEF AnswerIsDeserved
<1>2. CASE World
  <2>1. answer = "none" /\ UNCHANGED <<command, cancelled, scaduto, raised, at, atteso, late, answer>>
    BY <1>2 DEF World
  <2>2. /\ sigint' \in BOOLEAN /\ signal' \in BOOLEAN /\ expired' \in BOOLEAN
        /\ (sigint => sigint') /\ (signal => signal') /\ (expired => expired')
    BY <1>2 DEF World
  <2>. QED  BY <2>1, <2>2 DEF AnswerIsDeserved
<1>3. CASE Receive
  <2>1. answer = "none" /\ answer' = "none"
    BY <1>3 DEF Receive
  <2>. QED  BY <1>3, <2>1 DEF Receive, worldVars, AnswerIsDeserved, Outcomes
<1>4. CASE Look
  <2>1. answer = "none" /\ answer' = "none"
    BY <1>4 DEF Look
  <2>2. CASE cancelled
    BY <1>4, <2>1, <2>2 DEF Look, worldVars, AnswerIsDeserved
  <2>3. CASE ~cancelled /\ Interrupts
    BY <1>4, <2>1, <2>3 DEF Look, Interrupts, worldVars, AnswerIsDeserved
  <2>4. CASE ~cancelled /\ Expires
    BY <1>4, <2>1, <2>4 DEF Look, Expires, worldVars, AnswerIsDeserved
  <2>. QED  BY <1>4, <2>2, <2>3, <2>4 DEF Look
<1>5. CASE Match
  <2>1. CASE atteso = "nothing"
    BY <1>5, <2>1 DEF Match, Again, worldVars, AnswerIsDeserved
  <2>2. CASE atteso # "nothing"
    <3>1. at = "match" /\ Return
      BY <1>5, <2>2 DEF Match
    <3>2. AnswerIsDeserved'
      BY <2>2, <3>1, ReturnIsDeserved
    <3>. QED  BY <3>1, <3>2 DEF Return, worldVars
  <2>. QED  BY <2>1, <2>2
<1>6. CASE Returned \/ UNCHANGED vars
  BY <1>6 DEF Returned, vars, worldVars, AnswerIsDeserved
<1>. QED  BY <1>1, <1>2, <1>3, <1>4, <1>5, <1>6 DEF Next, PythonThread

\* The native backend answers only once the command has stopped, with a
\* timeout, an exception or a cancellation that has its cause, and a success
\* received in time unless a SIGINT came first (esegui, NativeRunner.run).
THEOREM NativeAnswerDeserved == Spec => []AnswerIsDeserved
<1>1. Init => IInv
  BY InitHolds
<1>2. IInv /\ [Next]_vars => IInv'
  BY StepHolds
<1>3. IInv => AnswerIsDeserved
  BY DEF IInv
<1>. QED  BY <1>1, <1>2, <1>3, PTL DEF Spec

=============================================================================
