------------------------------- MODULE MCSdk --------------------------------
(***************************************************************************)
(* One call of the SDK on either of its backends: a Runner, which is a     *)
(* process of its own, or a NativeRunner in the Python process.            *)
(***************************************************************************)
EXTENDS NativeCommand, SdkRunner

VARIABLE backend

\* A call on one backend; the other's is over before it begins.
BackendInit ==
  \/ backend = "process" /\ RunInit /\ InitAt("done")
  \/ backend = "native" /\ RunInitAt("done") /\ Init

BackendNext ==
  \/ backend = "process" /\ RunNext /\ UNCHANGED <<backend, vars>>
  \/ backend = "native" /\ Next /\ UNCHANGED <<backend, runVars>>

BackendSpec ==
  /\ BackendInit /\ [][BackendNext]_<<backend, vars, runVars>>
  /\ WF_runVars(CallerStep)
  /\ \A s \in Streams : WF_runVars(ReaderStep(s))
  /\ WF_vars(PythonThread)
  /\ WF_vars(cancelled /\ Command)

\* A call of the process backend returns whoever holds the pipes, and its
\* reader threads end with them (CallReturns, ReadersEnd of SdkRunner).
ProcessCallEnds == backend = "process" => CallReturns /\ ReadersEnd

\* StopIsAnswered of NativeCommand: SIGINT, a signal that raises, the timeout.
NativeStopIsAnswered == backend = "native" => StopIsAnswered

=============================================================================
