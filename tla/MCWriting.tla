----------------------------- MODULE MCWriting ------------------------------
(***************************************************************************)
(* Instances for TLC of the writing side: a command with the writers below *)
(* it, and the publish functions they end in.  The commands see of a       *)
(* publication what its answer says: a behaviour is of one or the other.   *)
(***************************************************************************)
EXTENDS Conversion, Publish

CONSTANT Parts

VARIABLE part

-----------------------------------------------------------------------------
\* No layer, or two; a second batch with another shape; an odd row after a good
\* one.
MCSources == {<< >>, << << <<"point">>, <<"line">> >>, << << >> >> >>,
              << << <<"point", "odd">> >> >>}

MCBatches == {<<"point", "null">>, <<"line">>, <<"point", "odd">>, << >>}

WritingInit ==
  /\ part \in Parts
  /\ part = "commands" =>
       /\ mode = "file" /\ durable = FALSE /\ platform = "linux"
       /\ oversized = FALSE /\ stopped = FALSE /\ dest = [n \in 1 .. NFiles |-> "free"]
  /\ part = "publish" =>
       /\ format = "csv" /\ xy = FALSE /\ slots = 1
       /\ host = "library" /\ source = CHOOSE s \in Sources : TRUE
  /\ Init /\ CommandInit

WritingNext ==
  \/ part = "commands" /\ CommandNext /\ UNCHANGED <<part, vars>>
  \/ part = "publish" /\ Next /\ UNCHANGED <<part, conversionVars>>

\* FairCommandSpec of Conversion; a publication is only looked at by its answer.
WritingSpec ==
  /\ WritingInit /\ [][WritingNext]_<<part, vars, conversionVars>>
  /\ WF_conversionVars(part = "commands" /\ CommandStep)

=============================================================================
