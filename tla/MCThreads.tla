----------------------------- MODULE MCThreads ------------------------------
(***************************************************************************)
(* Instances for TLC of the two places where threads meet without a lock   *)
(* over the whole operation: the tree of cancellation tokens, and a call   *)
(* of the SDK's Runner.  A behaviour is of one or of the other.            *)
(***************************************************************************)
EXTENDS Cancellation, SdkRunner, TLC

CONSTANTS t1, t2, f1

VARIABLE part

-----------------------------------------------------------------------------
TwoThreads == {t1, t2}
OneTask    == {f1}

Symmetry == Permutations(TwoThreads)

ThreadsInit ==
  \/ part = "tokens" /\ Init /\ RunInit /\ ~grandchild
  \/ part = "call" /\ RunInit /\ Init /\ deadline[1] = Never

ThreadsNext ==
  \/ part = "tokens" /\ Next /\ UNCHANGED <<part, runVars>>
  \/ part = "call" /\ RunNext /\ UNCHANGED <<part, vars>>

ThreadsSpec == ThreadsInit /\ [][ThreadsNext]_<<part, vars, runVars>>

=============================================================================
