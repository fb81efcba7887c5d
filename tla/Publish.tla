------------------------------ MODULE Publish -------------------------------
(***************************************************************************)
(* How a staged output gets its final names: publish.rs.                   *)
(*                                                                         *)
(* Three forms: a file (one rename), a directory dataset (one rename of a  *)
(* tree) and a loose set (one rename per file, the marker last, rolled     *)
(* back when one fails).  Other processes create and remove files of the   *)
(* same names meanwhile, the token may be cancelled or the deadline pass,  *)
(* and the process or the machine may stop at any step.                    *)
(*                                                                         *)
(* Assumed of the others: they leave the files this process published      *)
(* alone.  File systems are POSIX-like: a rename is atomic for those who   *)
(* look, and after a power loss only what was synchronised is certain.     *)
(***************************************************************************)
EXTENDS Naturals

CONSTANTS
  NFiles,     (* the files of a set or of a tree; NFiles is the marker     *)
  Modes,      (* of {"file", "dir", "set"}: the publish functions called   *)
  Platforms   (* of {"linux", "windows", "bsd"}: the cfg(...) variants. A  *)
              (* linux has an exclusive rename (Android and Apple too), a  *)
              (* bsd is any other unix.                                    *)

VARIABLES
  mode, durable, platform,  (* the call: function, profile and platform    *)
  oversized,  (* the staged bytes exceed max_output_bytes                  *)
  stopped,    (* the token was cancelled or the deadline passed            *)
  at,         (* where the publisher is                                    *)
  k,          (* the file the loop of that place is at                     *)
  synced,     (* the files whose content was fsynced                       *)
  confirmed,  (* staging_durability_confirmed                              *)
  rollback_failed,
  answer,     (* the result of the call                                    *)
  effect,     (* the remote_effect of an error                             *)
  dest,       (* who owns each destination name, as everyone sees it       *)
  entries,    (* the destination directory as of its last fsync            *)
  damaged     (* the files that lost content with the power                *)

callVars  == <<mode, durable, platform, oversized>>
syncVars  == <<synced, confirmed>>
replyVars == <<answer, effect>>
diskVars  == <<entries, damaged>>
vars == <<callVars, stopped, at, k, syncVars, rollback_failed, replyVars, dest, diskVars>>

Files    == 1 .. NFiles
\* The renames of the call, and the files they carry.
Moves    == IF mode = "set" THEN Files ELSE {1}
LastMove == IF mode = "set" THEN NFiles ELSE 1
Contents == IF mode = "file" THEN {1} ELSE Files

Successes == {"published", "unconfirmed"}
Failures  == {"exists", "limit", "cancelled", "io"}

SyncsDirectories == platform # "windows"

-----------------------------------------------------------------------------
(* Leaving the function, and walking its loops *)

\* An error before the first rename.
Refuse(error) ==
  /\ at' = "done"
  /\ answer' = error
  /\ effect' = "none"
  /\ UNCHANGED k

Goto(place) ==
  /\ at' = place
  /\ k' = 1
  /\ UNCHANGED replyVars

Step ==
  /\ k' = k + 1
  /\ UNCHANGED <<at, replyVars>>

-----------------------------------------------------------------------------
(* Before the first rename *)

\* limite_o_scadenza: a stop comes before the quota.  A set is measured by
\* publish.rs after the preflight, the other forms before it.
Measure ==
  /\ at = "measuring"
  /\ IF oversized THEN Refuse(IF stopped THEN "cancelled" ELSE "limit")
     ELSE Goto(IF mode = "set" THEN "syncing" ELSE "preflight")
  /\ UNCHANGED <<callVars, stopped, syncVars, rollback_failed, dest, diskVars>>

\* ensure_destination_absent, one name at a time, then the file systems.
Preflight ==
  /\ at = "preflight"
  /\ \/ dest[k] # "free" /\ Refuse("exists")
     \/ Refuse("io")
     \/ /\ dest[k] = "free"
        /\ IF k # LastMove THEN Step
           ELSE Goto(IF mode = "set" THEN "measuring" ELSE "syncing")
  /\ UNCHANGED <<callVars, stopped, syncVars, rollback_failed, dest, diskVars>>

\* sync_file of each content, in the durable profile.
SyncFile ==
  /\ at = "syncing"
  /\ \/ Refuse("io") /\ UNCHANGED synced
     \/ ~ durable /\ Goto("checking") /\ UNCHANGED synced
     \/ /\ durable
        /\ synced' = synced \cup {k}
        /\ IF k + 1 \in Contents THEN Step
           ELSE Goto(IF mode = "file" THEN "checking" ELSE "syncing_dir")
  /\ UNCHANGED <<callVars, stopped, confirmed, rollback_failed, dest, diskVars>>

\* sync_dir of the staging directory: not available on windows.
SyncStaging ==
  /\ at = "syncing_dir"
  /\ \/ Refuse("io") /\ UNCHANGED confirmed
     \/ Goto("checking") /\ confirmed' = SyncsDirectories
  /\ UNCHANGED <<callVars, stopped, synced, rollback_failed, dest, diskVars>>

\* Mutant: the context was looked at when the call began, before the fsyncs.
CheckEarly ==
  /\ at = "checking"
  /\ Goto("renaming")
  /\ UNCHANGED <<callVars, stopped, syncVars, rollback_failed, dest, diskVars>>

\* ancora_attiva: the last look at the context.
Check ==
  /\ at = "checking"
  /\ IF stopped THEN Refuse("cancelled") ELSE Goto("renaming")
  /\ UNCHANGED <<callVars, stopped, syncVars, rollback_failed, dest, diskVars>>

-----------------------------------------------------------------------------
(* The renames *)

\* The hard_link of the platforms with no exclusive rename; NamedTempFile
\* brings its own no-clobber rename for a single file.
Links == platform = "bsd" /\ mode # "file"

Advance == IF k # LastMove THEN at' = "renaming" /\ k' = k + 1 /\ UNCHANGED replyVars
           ELSE Goto("finalizing")

\* Mutant: the name was free at the preflight, and a plain rename replaces it.
RenameReplacing ==
  /\ at = "renaming"
  /\ dest' = [dest EXCEPT ![k] = "ours"]
  /\ Advance
  /\ UNCHANGED <<callVars, stopped, syncVars, rollback_failed, diskVars>>

\* rename_noclobber of file k.
Rename ==
  /\ at = "renaming"
  /\ dest[k] = "free"
  /\ Links => mode = "set"
  /\ dest' = [dest EXCEPT ![k] = "ours"]
  /\ IF Links THEN at' = "unlinking" /\ UNCHANGED <<k, replyVars>> ELSE Advance
  /\ UNCHANGED <<callVars, stopped, syncVars, rollback_failed, diskVars>>

RenameFails ==
  /\ at = "renaming"
  /\ answer' = IF dest[k] # "free" THEN "exists" ELSE "io"
  /\ at' = "rollback"
  /\ k' = k - 1
  /\ UNCHANGED <<callVars, stopped, syncVars, rollback_failed, effect, dest, diskVars>>

\* remove_file of the source after hard_link.  When it fails the rename has
\* failed: publish_rename_error finds the name it made itself taken.
Unlink ==
  /\ at = "unlinking"
  /\ Advance
  /\ UNCHANGED <<callVars, stopped, syncVars, rollback_failed, dest, diskVars>>

UnlinkFails ==
  /\ at = "unlinking"
  /\ answer' = "exists"
  /\ at' = "rollback"
  /\ k' = k - 1
  /\ UNCHANGED <<callVars, stopped, syncVars, rollback_failed, effect, dest, diskVars>>

\* Mutant: a rename that fails on the way back is not remembered.
UndoForgetful ==
  /\ at = "rollback"
  /\ k > 0
  /\ \/ dest' = [dest EXCEPT ![k] = "free"]
     \/ UNCHANGED dest
  /\ k' = k - 1
  /\ UNCHANGED <<callVars, stopped, at, syncVars, rollback_failed, replyVars, diskVars>>

\* rollback_rename of the files moved so far, the last one first.
Undo ==
  /\ at = "rollback"
  /\ k > 0
  /\ \/ dest' = [dest EXCEPT ![k] = "free"] /\ UNCHANGED rollback_failed
     \/ rollback_failed' = TRUE /\ UNCHANGED dest
  /\ k' = k - 1
  /\ UNCHANGED <<callVars, stopped, at, syncVars, replyVars, diskVars>>

EndRollback ==
  /\ at = "rollback"
  /\ k = 0
  /\ at' = "done"
  /\ effect' = IF rollback_failed THEN "partial" ELSE "none"
  /\ UNCHANGED <<callVars, stopped, k, syncVars, rollback_failed, answer, dest, diskVars>>

\* Mutant: any successful publication is reported as published.
FinalizeOptimistic ==
  /\ at = "finalizing"
  /\ \/ durable /\ SyncsDirectories /\ entries' = dest
     \/ UNCHANGED entries
  /\ at' = "done"
  /\ answer' = "published"
  /\ UNCHANGED <<callVars, stopped, k, syncVars, rollback_failed, effect, dest, damaged>>

Finalize ==
  /\ at = "finalizing"
  /\ \/ /\ ~ durable
        /\ answer' = "published"
        /\ UNCHANGED entries
     \/ /\ durable
        /\ answer' = IF SyncsDirectories /\ confirmed THEN "published" ELSE "unconfirmed"
        /\ entries' = IF SyncsDirectories THEN dest ELSE entries
     \/ /\ durable
        /\ answer' = "unconfirmed"
        /\ UNCHANGED entries
  /\ at' = "done"
  /\ UNCHANGED <<callVars, stopped, k, syncVars, rollback_failed, effect, dest, damaged>>

-----------------------------------------------------------------------------
(* The rest of the machine *)

Stop ==
  /\ ~ stopped
  /\ stopped' = TRUE
  /\ UNCHANGED <<callVars, at, k, syncVars, rollback_failed, replyVars, dest, diskVars>>

OthersCreate(n) ==
  /\ dest[n] = "free"
  /\ at # "off"
  /\ dest' = [dest EXCEPT ![n] = "others"]
  /\ UNCHANGED <<callVars, stopped, at, k, syncVars, rollback_failed, replyVars, diskVars>>

OthersRemove(n) ==
  /\ dest[n] = "others"
  /\ at # "off"
  /\ dest' = [dest EXCEPT ![n] = "free"]
  /\ UNCHANGED <<callVars, stopped, at, k, syncVars, rollback_failed, replyVars, diskVars>>

\* A caller that stops with the publisher has no answer.
Unanswered == answer' = IF at = "done" THEN answer ELSE "none"

Kill ==
  /\ at \notin {"done", "killed", "off"}
  /\ at' = "killed"
  /\ Unanswered
  /\ UNCHANGED <<callVars, stopped, k, syncVars, rollback_failed, effect, dest, diskVars>>

\* The contents a power loss may take: those not fsynced, and the whole tree
\* of a directory that was not.
AtRisk ==
  IF mode = "dir" /\ ~ (durable /\ confirmed) THEN Contents ELSE Contents \ synced

\* Each name is as it was last synchronised or as it is now.
PowerLoss ==
  /\ at # "off"
  /\ at' = "off"
  /\ \E kept \in SUBSET Moves :
       dest' = [n \in Files |-> IF n \in kept \cup (Files \ Moves) THEN dest[n] ELSE entries[n]]
  /\ damaged' \in SUBSET AtRisk
  /\ Unanswered
  /\ UNCHANGED <<callVars, stopped, k, syncVars, rollback_failed, effect, entries>>

Off ==
  /\ at = "off"
  /\ UNCHANGED vars

-----------------------------------------------------------------------------
Init ==
  /\ mode \in Modes
  /\ durable \in BOOLEAN
  /\ platform \in Platforms
  /\ oversized \in BOOLEAN
  /\ stopped \in BOOLEAN
  /\ at = IF mode = "set" THEN "preflight" ELSE "measuring"
  /\ k = 1
  /\ synced = {}
  /\ confirmed = TRUE
  /\ rollback_failed = FALSE
  /\ answer = "none" /\ effect = "none"
  /\ \E taken \in SUBSET Moves :
       dest = [n \in Files |-> IF n \in taken THEN "others" ELSE "free"]
  /\ entries = dest
  /\ damaged = {}

Prepare == Preflight \/ Measure \/ SyncFile \/ SyncStaging \/ Check

Commit ==
  \/ Rename \/ RenameFails \/ Unlink \/ UnlinkFails
  \/ Undo \/ EndRollback \/ Finalize

Others == \E n \in Moves : OthersCreate(n) \/ OthersRemove(n)

Next == Prepare \/ Commit \/ Stop \/ Others \/ Kill \/ PowerLoss \/ Off

Spec == Init /\ [][Next]_vars

-----------------------------------------------------------------------------
(* Properties *)

Ours == {n \in Moves : dest[n] = "ours"}

\* A file another process created is never replaced, nor taken away by the
\* rollback, even when it appears between the preflight and the rename.
NeverClobbers ==
  [][Prepare \/ Commit => \A n \in Files : dest[n] = "others" => dest'[n] = "others"]_vars

\* On the platforms that rename without replacing in one step.
ExclusiveRename == platform # "bsd" \/ mode # "set"

Failed == at = "done" /\ answer \in Failures

\* A failed call that declares no effect left nothing of its own behind: the
\* caller may retry without looking (publish.rs:420, docs/PRODUCT.md:152).
NoneMeansNothingVisible == Failed /\ effect = "none" => Ours = {}

\* A durable publication answered Published survives the loss of power with
\* all its names and all its content.
PublishedSurvivesPowerLoss ==
  durable /\ answer = "published" => Ours = Moves /\ damaged = {}

\* What the call declares is what is on the disk: all of it after a success,
\* nothing after an error with no effect, something after a partial one.  And
\* whoever finds the marker finds the whole set, also when the publisher was
\* killed between two renames or is rolling back.
OutcomeIsTrue ==
  /\ ExclusiveRename /\ at # "off" /\ LastMove \in Ours => Ours = Moves
  /\ PublishedSurvivesPowerLoss
  /\ at = "done" /\ answer \in Successes => Ours = Moves
  /\ ExclusiveRename => NoneMeansNothingVisible
  /\ Failed /\ effect = "partial" => Ours # {}

BeforeTheCheck == at \in {"preflight", "measuring", "syncing", "syncing_dir", "checking"}

\* A stop that is there before the last check, however long the fsyncs took,
\* keeps the output invisible for ever.
ObservedStopPublishesNothing ==
  [](stopped /\ BeforeTheCheck => [](Ours = {}))

\* A loose set makes no such promise and is left out of it.
Visible ==
  IF mode = "set" \/ Ours = {} THEN "nothing"
  ELSE IF Ours = Moves /\ damaged = {} THEN "all"
  ELSE "damaged"

Outcome ==
  IF mode = "set" THEN "open"
  ELSE IF answer \in Successes THEN answer
  ELSE IF at = "done" \/ (at = "off" /\ answer \in Failures) THEN "failed"
  ELSE IF at \in {"killed", "off"} THEN "dead"
  ELSE "open"

Promise == INSTANCE CrashAtomic WITH visible <- Visible, outcome <- Outcome

\* A single file and a directory dataset are published in one act, and their
\* answers are about the output that stays.
CrashAtomicSpec == Promise!Spec

=============================================================================
