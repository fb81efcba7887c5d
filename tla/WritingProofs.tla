---------------------------- MODULE WritingProofs ----------------------------
(***************************************************************************)
(* What is written, and what becomes of it.                                *)
(*                                                                         *)
(* Publication: the three publish functions for a set or a tree of any     *)
(* number of files, with other processes on the same names, a kill and a   *)
(* loss of power at any step.  A set has at least one file, its marker.    *)
(*                                                                         *)
(* Command: read, write, convert and deliver on any of the ten backends,   *)
(* and the calls of a library, for any sources, batches, quotas and hosts, *)
(* with signals and a panic at any step.                                   *)
(***************************************************************************)
EXTENDS Conversion, Publish, Totals, FiniteSetTheorems, SequenceTheorems, TLAPS

-----------------------------------------------------------------------------
(* PART 1.  Publication *)

Owned == dest \in [Files -> {"free", "others", "ours"}]

Types ==
  /\ durable \in BOOLEAN /\ confirmed \in BOOLEAN /\ rollback_failed \in BOOLEAN
  /\ k \in Nat
  /\ Owned
  /\ at # "off" => damaged = {}

\* Nothing is published before the renames, and the loops stay in their bounds.
Early ==
  /\ BeforeTheCheck => Ours = {}
  /\ at = "preflight" => k \in Moves
  /\ at = "syncing" => k \in Contents

\* The renames go through the names in order, the marker last.
Renaming ==
  /\ at = "renaming" => k \in Moves /\ Ours = 1 .. (k - 1)
  /\ at = "unlinking" => ~ExclusiveRename /\ k \in Moves /\ Ours = 1 .. k
  /\ at = "finalizing" => Ours = Moves

\* On the way back the files still to be moved are there, those that could
\* not be moved stay, and nothing else does.
RollingBack ==
  /\ at \in {"renaming", "unlinking"} => ~rollback_failed
  /\ at = "rollback" =>
       /\ answer \in Failures
       /\ k < LastMove /\ 1 .. k \subseteq Ours
       /\ rollback_failed => Ours \ (1 .. k) # {}
       /\ ExclusiveRename => LastMove \notin Ours /\ (~rollback_failed => Ours = 1 .. k)
  /\ at \notin {"rollback", "done", "killed", "off"} => ~rollback_failed

\* Nobody has an answer before the end, and the end is true.
Answered ==
  /\ at \notin {"rollback", "done", "off"} => answer = "none"
  /\ at \notin {"done", "off"} => effect = "none"
  /\ at = "done" =>
       \/ answer \in Failures /\ effect = "none" /\ (ExclusiveRename => Ours = {})
       \/ answer \in Failures /\ effect = "partial" /\ Ours # {}
                              /\ (ExclusiveRename => LastMove \notin Ours)
       \/ answer \in Successes /\ Ours = Moves

\* Contents are synchronised before the first rename, names before Published.
Synced ==
  durable =>
    /\ at = "syncing" => 1 .. (k - 1) \subseteq synced
    /\ at \in {"syncing_dir", "checking", "renaming", "unlinking", "rollback", "finalizing"} =>
         Contents \subseteq synced
    /\ answer = "published" =>
         /\ Contents \subseteq synced /\ confirmed /\ damaged = {}
         /\ \A n \in Moves : dest[n] = "ours" /\ entries[n] = "ours"

MarkerIsLast == ExclusiveRename /\ at # "off" /\ LastMove \in Ours => Ours = Moves

\* A directory fsync has recorded our names only at the end of a success.
Record ==
  /\ entries \in [Files -> {"free", "others", "ours"}]
  /\ at # "off" /\ (\E n \in Moves : entries[n] = "ours") => at = "done" /\ answer \in Successes

PublishInv ==
  Types /\ Early /\ Renaming /\ RollingBack /\ Answered /\ Synced /\ MarkerIsLast

\* The names of a call and the contents they carry, counted from one.
LEMMA Counted ==
  ASSUME NFiles \in Nat \ {0}
  PROVE  /\ LastMove \in 1 .. NFiles /\ Moves = 1 .. LastMove /\ Moves \subseteq Files
         /\ \E size \in 1 .. NFiles : Contents = 1 .. size
<1>1. LastMove \in 1 .. NFiles /\ Moves = 1 .. LastMove /\ Moves \subseteq Files
  BY DEF LastMove, Moves, Files
<1>2. \E size \in 1 .. NFiles : Contents = 1 .. size
  <2>1. CASE mode = "file"
    <3>1. Contents = 1 .. 1
      BY <2>1 DEF Contents
    <3>. QED  BY <3>1
  <2>2. CASE mode # "file"
    <3>1. Contents = 1 .. NFiles
      BY <2>2 DEF Contents, Files
    <3>. QED  BY <3>1
  <2>. QED  BY <2>1, <2>2
<1>. QED  BY <1>1, <1>2

\* The call does not change.
LEMMA Frame ==
  UNCHANGED callVars =>
    /\ Moves' = Moves /\ LastMove' = LastMove /\ Contents' = Contents
    /\ (ExclusiveRename' <=> ExclusiveRename) /\ (Links' <=> Links) /\ durable' = durable
    /\ (dest' = dest => Ours' = Ours)
<1>. SUFFICES ASSUME UNCHANGED callVars
     PROVE  /\ Moves' = Moves /\ LastMove' = LastMove /\ Contents' = Contents
            /\ (ExclusiveRename' <=> ExclusiveRename) /\ (Links' <=> Links) /\ durable' = durable
            /\ (dest' = dest => Ours' = Ours)
  OBVIOUS
<1>1. Moves' = Moves /\ LastMove' = LastMove /\ Contents' = Contents /\ durable' = durable
  BY DEF callVars, Moves, LastMove, Contents
<1>2. (ExclusiveRename' <=> ExclusiveRename) /\ (Links' <=> Links)
  BY DEF callVars, ExclusiveRename, Links
<1>3. ASSUME dest' = dest PROVE Ours' = Ours
  BY <1>1, <1>3 DEF Ours
<1>. QED  BY <1>1, <1>2, <1>3

LEMMA PublishInit == ASSUME NFiles \in Nat \ {0} PROVE Init => PublishInv
<1>. SUFFICES ASSUME Init PROVE PublishInv
  OBVIOUS
<1>1. Ours = {}
  BY Counted DEF Init, Ours
<1>2. dest \in [Files -> {"free", "others", "ours"}]
  BY DEF Init
<1>3. 1 \in Moves /\ LastMove \in Moves
  BY Counted
<1>. QED  BY <1>1, <1>2, <1>3
          DEF Init, PublishInv, Types, Owned, Early, Renaming, RollingBack, Answered, Synced,
              MarkerIsLast, BeforeTheCheck

-----------------------------------------------------------------------------
(* The steps *)

\* An error before the first rename is the end, and nothing was published.
LEMMA RefuseKeeps ==
  ASSUME NEW error \in Failures, PublishInv, BeforeTheCheck, Refuse(error),
         UNCHANGED <<callVars, rollback_failed, dest, diskVars>>,
         confirmed' \in BOOLEAN
  PROVE  PublishInv'
<1>1. Ours = {} /\ Ours' = {}
  BY Frame DEF PublishInv, Early
<1>2. at' = "done" /\ answer' = error /\ effect' = "none" /\ k' = k /\ error # "published"
  BY DEF Refuse, Failures
<1>3. Types'
  BY <1>2, Frame DEF PublishInv, Types, Owned, BeforeTheCheck, diskVars
<1>4. Early' /\ Renaming' /\ RollingBack' /\ Synced'
  BY <1>2 DEF Early, Renaming, RollingBack, Synced, BeforeTheCheck
<1>5. Answered'
  BY <1>1, <1>2 DEF Answered
<1>6. LastMove \notin Ours'
  BY <1>1
<1>7. MarkerIsLast'
  BY <1>1, Frame DEF MarkerIsLast
<1>. QED  BY <1>3, <1>4, <1>5, <1>7 DEF PublishInv

\* On to another place before the renames, or to the first of them.
LEMMA OnwardKeeps ==
  ASSUME NFiles \in Nat \ {0}, PublishInv, BeforeTheCheck,
         UNCHANGED <<callVars, rollback_failed, replyVars, dest, diskVars>>,
         confirmed' \in BOOLEAN, k' \in Nat,
         \/ at' \in {"preflight", "measuring", "syncing", "syncing_dir", "checking"}
         \/ at' = "renaming" /\ k' = 1,
         at' = "preflight" => k' \in Moves,
         at' = "syncing" => k' \in Contents /\ (durable => 1 .. (k' - 1) \subseteq synced'),
         durable /\ at' \in {"syncing_dir", "checking", "renaming"} => Contents \subseteq synced'
  PROVE  PublishInv'
<1>1. Ours = {} /\ Ours' = {} /\ Moves' = Moves /\ Contents' = Contents /\ durable' = durable
  BY Frame DEF PublishInv, Early
<1>2. answer' = "none" /\ effect' = "none" /\ ~rollback_failed'
  BY DEF PublishInv, Answered, RollingBack, BeforeTheCheck, replyVars
<1>3. Types'
  BY <1>1 DEF PublishInv, Types, Owned, BeforeTheCheck, diskVars
<1>4. Early' /\ Answered'
  BY <1>1, <1>2 DEF Early, Answered
<1>5. Renaming'
  <2>1. 1 \in Moves /\ 1 .. (1 - 1) = {}
    BY Counted
  <2>. QED  BY <1>1, <2>1 DEF Renaming
<1>6. RollingBack'
  BY <1>2 DEF RollingBack
<1>7. Synced'
  BY <1>1, <1>2 DEF Synced
<1>8. MarkerIsLast'
  BY <1>1 DEF MarkerIsLast
<1>. QED  BY <1>3, <1>4, <1>5, <1>6, <1>7, <1>8 DEF PublishInv

LEMMA PrepareKeeps == ASSUME NFiles \in Nat \ {0}, PublishInv, Prepare PROVE PublishInv'
<1>. DEFINE Left == \E error \in Failures : Refuse(error)
<1>1. UNCHANGED <<callVars, rollback_failed, dest, diskVars>> /\ BeforeTheCheck
  BY DEF Prepare, Preflight, Measure, SyncFile, SyncStaging, Check, BeforeTheCheck
<1>2. confirmed' \in BOOLEAN
  BY DEF Prepare, Preflight, Measure, SyncFile, SyncStaging, Check, syncVars, PublishInv, Types,
         SyncsDirectories
<1>3. 1 \in Moves /\ 1 \in Contents /\ 1 .. (1 - 1) = {} /\ LastMove \in Nat /\ Moves = 1 .. LastMove
  BY Counted
<1>4. k \in Nat
  BY DEF PublishInv, Types
<1>5. ASSUME Left PROVE PublishInv'
  BY <1>1, <1>2, <1>5, RefuseKeeps
<1>6. CASE Preflight
  <2>1. CASE Left
    BY <1>5, <2>1
  <2>2. CASE ~Left
    <3>1. k \in Moves
      BY <1>6 DEF Preflight, PublishInv, Early
    <3>2. k # LastMove => at' = "preflight" /\ k' = k + 1
      BY <1>6, <2>2 DEF Preflight, Failures, Step
    <3>3. k = LastMove => at' \in {"measuring", "syncing"} /\ k' = 1
      BY <1>6, <2>2 DEF Preflight, Failures, Goto
    <3>4. UNCHANGED replyVars
      BY <1>6, <2>2 DEF Preflight, Failures, Goto, Step
    <3>. QED  BY <1>1, <1>2, <1>3, <1>4, <3>1, <3>2, <3>3, <3>4, OnwardKeeps
  <2>. QED  BY <2>1, <2>2
<1>7. CASE Measure
  <2>1. CASE Left
    BY <1>5, <2>1
  <2>2. CASE ~Left
    <3>1. at' \in {"syncing", "preflight"} /\ k' = 1 /\ UNCHANGED replyVars
      BY <1>7, <2>2 DEF Measure, Failures, Goto
    <3>. QED  BY <1>1, <1>2, <1>3, <3>1, OnwardKeeps
  <2>. QED  BY <2>1, <2>2
<1>8. CASE SyncFile
  <2>1. CASE Left
    BY <1>5, <2>1
  <2>2. CASE ~durable /\ Goto("checking")
    BY <1>1, <1>2, <1>3, <2>2, OnwardKeeps DEF Goto
  <2>3. CASE durable /\ synced' = synced \cup {k} /\ k + 1 \in Contents /\ Step
    <3>1. at' = "syncing" /\ k' = k + 1 /\ UNCHANGED replyVars /\ 1 .. (k - 1) \subseteq synced
      BY <1>8, <2>3 DEF SyncFile, Step, PublishInv, Synced
    <3>2. 1 .. (k' - 1) \subseteq synced'
      BY <1>4, <2>3, <3>1
    <3>. QED  BY <1>1, <1>2, <1>4, <2>3, <3>1, <3>2, OnwardKeeps
  <2>4. CASE /\ durable /\ synced' = synced \cup {k} /\ k + 1 \notin Contents
             /\ Goto(IF mode = "file" THEN "checking" ELSE "syncing_dir")
    <3>1. k \in Contents /\ 1 .. (k - 1) \subseteq synced
      BY <1>8, <2>4 DEF SyncFile, PublishInv, Synced, Early
    <3>2. Contents \subseteq synced'
      <4>1. PICK size \in 1 .. NFiles : Contents = 1 .. size
        BY Counted
      <4>2. k = size
        BY <2>4, <3>1, <4>1
      <4>3. ASSUME NEW n \in 1 .. size PROVE n \in synced'
        <5>1. n \in 1 .. (k - 1) \/ n = k
          BY <4>1, <4>2, <4>3
        <5>. QED  BY <2>4, <3>1, <5>1
      <4>. QED  BY <4>1, <4>3
    <3>. QED  BY <1>1, <1>2, <1>3, <2>4, <3>2, OnwardKeeps DEF Goto
  <2>. QED  BY <1>8, <2>1, <2>2, <2>3, <2>4 DEF SyncFile, Failures
<1>9. CASE SyncStaging
  <2>1. CASE Left
    BY <1>5, <2>1
  <2>2. CASE ~Left
    <3>1. at' = "checking" /\ k' = 1 /\ UNCHANGED <<replyVars, synced>>
      BY <1>9, <2>2 DEF SyncStaging, Failures, Goto
    <3>2. durable => Contents \subseteq synced'
      BY <1>9, <3>1 DEF SyncStaging, PublishInv, Synced
    <3>. QED  BY <1>1, <1>2, <1>3, <3>1, <3>2, OnwardKeeps
  <2>. QED  BY <2>1, <2>2
<1>10. CASE Check
  <2>1. CASE Left
    BY <1>5, <2>1
  <2>2. CASE ~Left
    <3>1. at' = "renaming" /\ k' = 1 /\ UNCHANGED <<replyVars, synced>>
      BY <1>10, <2>2 DEF Check, Failures, Goto, syncVars
    <3>2. durable => Contents \subseteq synced'
      BY <1>10, <3>1 DEF Check, PublishInv, Synced
    <3>. QED  BY <1>1, <1>2, <1>3, <3>1, <3>2, OnwardKeeps
  <2>. QED  BY <2>1, <2>2
<1>. QED  BY <1>6, <1>7, <1>8, <1>9, <1>10 DEF Prepare

\* One name more, and one name less.
LEMMA Named ==
  ASSUME NFiles \in Nat \ {0}, Owned, UNCHANGED callVars, NEW n \in Moves
  PROVE  /\ dest' = [dest EXCEPT ![n] = "ours"] => Ours' = Ours \cup {n} /\ Owned'
         /\ dest' = [dest EXCEPT ![n] = "free"] => Ours' = Ours \ {n} /\ Owned'
<1>1. n \in Files /\ Moves' = Moves /\ Moves \subseteq Files
  BY Counted, Frame
<1>. QED  BY <1>1 DEF Owned, Ours, Files

\* The next name, or the end of the renames.
LEMMA AdvanceKeeps ==
  ASSUME NFiles \in Nat \ {0}, PublishInv, at \in {"renaming", "unlinking"}, Advance,
         UNCHANGED <<callVars, stopped, syncVars, rollback_failed, diskVars>>,
         Owned', Ours' = 1 .. k
  PROVE  PublishInv'
<1>1. k \in Moves /\ answer = "none" /\ effect = "none" /\ ~rollback_failed
  BY DEF PublishInv, Renaming, Answered, RollingBack
<1>2. Moves' = Moves /\ LastMove' = LastMove /\ Contents' = Contents /\ durable' = durable
      /\ (ExclusiveRename' <=> ExclusiveRename) /\ Moves = 1 .. LastMove /\ LastMove \in Nat
  BY Frame, Counted
<1>3. /\ UNCHANGED replyVars
      /\ \/ k # LastMove /\ at' = "renaming" /\ k' = k + 1
         \/ k = LastMove /\ at' = "finalizing" /\ k' = 1
  BY DEF Advance, Goto
<1>4. Types' /\ Early' /\ Answered'
  BY <1>1, <1>2, <1>3 DEF PublishInv, Types, Early, Answered, BeforeTheCheck, diskVars, replyVars, syncVars
<1>5. Renaming'
  BY <1>1, <1>2, <1>3 DEF Renaming
<1>6. RollingBack'
  BY <1>1, <1>3 DEF RollingBack
<1>7. Synced'
  BY <1>1, <1>2, <1>3 DEF PublishInv, Synced, replyVars, syncVars
<1>8. MarkerIsLast'
  BY <1>1, <1>2, <1>3 DEF MarkerIsLast
<1>. QED  BY <1>4, <1>5, <1>6, <1>7, <1>8 DEF PublishInv

\* A rename has failed: back over the names before it.
LEMMA BackKeeps ==
  ASSUME NFiles \in Nat \ {0}, PublishInv, RenameFails \/ UnlinkFails
  PROVE  PublishInv'
<1>1. /\ k \in Moves /\ effect = "none" /\ ~rollback_failed /\ 1 .. (k - 1) \subseteq Ours
      /\ ExclusiveRename => Ours = 1 .. (k - 1)
  <2>1. k \in Moves /\ effect = "none" /\ ~rollback_failed
    BY DEF PublishInv, Renaming, Answered, RollingBack, RenameFails, UnlinkFails
  <2>2. CASE RenameFails
    BY <2>1, <2>2 DEF PublishInv, Renaming, RenameFails
  <2>3. CASE UnlinkFails
    <3>1. Ours = 1 .. k /\ ~ExclusiveRename
      BY <2>3 DEF PublishInv, Renaming, UnlinkFails
    <3>2. 1 .. (k - 1) \subseteq 1 .. k
      BY DEF PublishInv, Types
    <3>. QED  BY <2>1, <3>1, <3>2
  <2>. QED  BY <2>1, <2>2, <2>3
<1>2. /\ at' = "rollback" /\ k' = k - 1 /\ answer' \in {"exists", "io"} /\ effect' = effect
      /\ UNCHANGED <<callVars, syncVars, rollback_failed, dest, diskVars>>
  BY DEF RenameFails, UnlinkFails
<1>3. Moves' = Moves /\ LastMove' = LastMove /\ Contents' = Contents /\ durable' = durable /\ Ours' = Ours
      /\ (ExclusiveRename' <=> ExclusiveRename) /\ Moves = 1 .. LastMove /\ LastMove \in Nat
  BY <1>2, Frame, Counted
<1>4. Types'
  BY <1>1, <1>2, <1>3 DEF PublishInv, Types, Owned, diskVars, syncVars, RenameFails, UnlinkFails
<1>5. Early' /\ Renaming' /\ Answered'
  BY <1>1, <1>2 DEF Early, Renaming, Answered, BeforeTheCheck
<1>6. RollingBack'
  BY <1>1, <1>2, <1>3 DEF RollingBack, Failures
<1>7. Synced'
  BY <1>2, <1>3 DEF PublishInv, Synced, syncVars, RenameFails, UnlinkFails
<1>8. MarkerIsLast'
  BY <1>1, <1>2, <1>3 DEF MarkerIsLast
<1>. QED  BY <1>4, <1>5, <1>6, <1>7, <1>8 DEF PublishInv

\* One name is taken back, or stays and is remembered.
LEMMA UndoKeeps == ASSUME NFiles \in Nat \ {0}, PublishInv, Undo PROVE PublishInv'
<1>1. /\ at = "rollback" /\ at' = at /\ k > 0 /\ k \in Nat /\ k' = k - 1 /\ k < LastMove
      /\ answer \in Failures /\ effect = "none" /\ 1 .. k \subseteq Ours
      /\ UNCHANGED <<callVars, syncVars, replyVars, diskVars>>
  BY DEF Undo, PublishInv, Types, RollingBack, Answered
<1>2. Moves' = Moves /\ LastMove' = LastMove /\ Contents' = Contents /\ durable' = durable
      /\ (ExclusiveRename' <=> ExclusiveRename) /\ Moves = 1 .. LastMove /\ LastMove \in Nat
  BY <1>1, Frame, Counted
<1>3. k \in Moves /\ k \in Ours /\ answer # "published"
  BY <1>1, <1>2 DEF Failures
<1>4. \/ Ours' = Ours \ {k} /\ Owned' /\ rollback_failed' = rollback_failed
      \/ Ours' = Ours /\ Owned' /\ rollback_failed' = TRUE
  <2>1. CASE dest' = [dest EXCEPT ![k] = "free"] /\ UNCHANGED rollback_failed
    BY <1>1, <1>3, <2>1, Named DEF PublishInv, Types
  <2>2. CASE rollback_failed' = TRUE /\ UNCHANGED dest
    BY <1>1, <2>2, Frame DEF PublishInv, Types, Owned
  <2>. QED  BY <2>1, <2>2 DEF Undo
<1>5. Types'
  <2>1. k' \in Nat /\ damaged' = damaged /\ confirmed' = confirmed
    BY <1>1 DEF diskVars, syncVars
  <2>2. rollback_failed' \in BOOLEAN
    BY <1>4 DEF PublishInv, Types
  <2>. QED  BY <1>1, <1>2, <1>4, <2>1, <2>2 DEF PublishInv, Types
<1>6. Early' /\ Renaming' /\ Answered' /\ Synced'
  BY <1>1, <1>2, <1>3 DEF PublishInv, Early, Renaming, Answered, Synced, BeforeTheCheck, replyVars, syncVars
<1>7. RollingBack'
  <2>1. 1 .. k' \subseteq Ours' /\ k' < LastMove' /\ answer' \in Failures
    BY <1>1, <1>2, <1>4 DEF replyVars
  <2>2. rollback_failed' => Ours' \ (1 .. k') # {}
    <3>1. CASE Ours' = Ours \ {k} /\ rollback_failed' = rollback_failed
      <4>. SUFFICES ASSUME rollback_failed PROVE Ours' \ (1 .. k') # {}
        BY <3>1
      <4>1. PICK n \in Ours : n \notin 1 .. k
        BY <1>1 DEF PublishInv, RollingBack
      <4>2. n # k /\ n \notin 1 .. k'
        BY <1>1, <4>1
      <4>. QED  BY <3>1, <4>1, <4>2
    <3>2. CASE Ours' = Ours
      <4>1. k \notin 1 .. k'
        BY <1>1
      <4>. QED  BY <1>3, <3>2, <4>1
    <3>. QED  BY <1>4, <3>1, <3>2
  <2>3. ExclusiveRename' => LastMove' \notin Ours' /\ (~rollback_failed' => Ours' = 1 .. k')
    <3>1. ExclusiveRename => LastMove \notin Ours /\ (~rollback_failed => Ours = 1 .. k)
      BY <1>1 DEF PublishInv, RollingBack
    <3>2. Ours = 1 .. k => Ours \ {k} = 1 .. k'
      BY <1>1
    <3>3. CASE Ours' = Ours \ {k} /\ rollback_failed' = rollback_failed
      BY <1>2, <3>1, <3>2, <3>3
    <3>4. CASE Ours' = Ours /\ rollback_failed' = TRUE
      BY <1>2, <3>1, <3>4
    <3>. QED  BY <1>4, <3>3, <3>4
  <2>. QED  BY <1>1, <2>1, <2>2, <2>3 DEF RollingBack
<1>8. MarkerIsLast'
  BY <1>1, <1>7 DEF MarkerIsLast, RollingBack
<1>. QED  BY <1>5, <1>6, <1>7, <1>8 DEF PublishInv

\* The answer, of a failure and of a success.
LEMMA EndKeeps == ASSUME NFiles \in Nat \ {0}, PublishInv, EndRollback \/ Finalize PROVE PublishInv'
<1>1. /\ at \in {"rollback", "finalizing"} /\ at' = "done" /\ k' = k /\ damaged' = damaged
      /\ UNCHANGED <<callVars, syncVars, rollback_failed, dest>>
  BY DEF EndRollback, Finalize, diskVars
<1>2. Moves' = Moves /\ LastMove' = LastMove /\ Contents' = Contents /\ durable' = durable /\ Ours' = Ours
      /\ (ExclusiveRename' <=> ExclusiveRename) /\ Moves = 1 .. LastMove
  BY <1>1, Frame, Counted
<1>3. Types'
  BY <1>1, <1>2 DEF PublishInv, Types, Owned, syncVars
<1>4. Early' /\ Renaming' /\ RollingBack'
  BY <1>1 DEF Early, Renaming, RollingBack, BeforeTheCheck
<1>5. Answered'
  <2>1. CASE EndRollback
    <3>1. k = 0 /\ answer' = answer /\ effect' = IF rollback_failed THEN "partial" ELSE "none"
      BY <2>1 DEF EndRollback
    <3>. QED  BY <1>1, <1>2, <2>1, <3>1 DEF EndRollback, PublishInv, RollingBack, Answered, Types
  <2>2. CASE Finalize
    <3>1. Ours = Moves /\ answer' \in Successes
      BY <2>2 DEF Finalize, PublishInv, Renaming, Successes
    <3>. QED  BY <1>1, <1>2, <3>1 DEF Answered
  <2>. QED  BY <2>1, <2>2
<1>6. Synced'
  <2>1. CASE EndRollback
    BY <1>1, <2>1 DEF EndRollback, PublishInv, RollingBack, Failures, Synced
  <2>2. CASE Finalize
    <3>1. \A n \in Moves : dest[n] = "ours"
      BY <2>2 DEF Finalize, PublishInv, Renaming, Ours
    <3>2. durable => Contents \subseteq synced /\ damaged = {}
      BY <2>2 DEF Finalize, PublishInv, Synced, Types
    <3>3. durable /\ answer' = "published" => confirmed /\ entries' = dest
      BY <2>2 DEF Finalize
    <3>. QED  BY <1>1, <1>2, <3>1, <3>2, <3>3 DEF Synced, syncVars
  <2>. QED  BY <2>1, <2>2
<1>7. MarkerIsLast'
  BY <1>1, <1>2 DEF PublishInv, MarkerIsLast
<1>. QED  BY <1>3, <1>4, <1>5, <1>6, <1>7 DEF PublishInv

LEMMA CommitKeeps == ASSUME NFiles \in Nat \ {0}, PublishInv, Commit PROVE PublishInv'
<1>1. CASE Rename
  <2>1. /\ at = "renaming" /\ k \in Moves /\ k \in Nat /\ Ours = 1 .. (k - 1)
        /\ UNCHANGED <<callVars, stopped, syncVars, rollback_failed, diskVars>>
        /\ dest' = [dest EXCEPT ![k] = "ours"] /\ Owned
    BY <1>1 DEF Rename, PublishInv, Renaming, Types
  <2>2. Owned' /\ Ours' = 1 .. k
    <3>1. Owned' /\ Ours' = Ours \cup {k}
      BY <2>1, Named
    <3>2. k >= 1
      BY <2>1, Counted
    <3>. QED  BY <2>1, <3>1, <3>2
  <2>3. CASE ~Links
    BY <1>1, <2>1, <2>2, <2>3, AdvanceKeeps DEF Rename
  <2>4. CASE Links
    <3>1. at' = "unlinking" /\ UNCHANGED <<k, replyVars>> /\ ~ExclusiveRename
      BY <1>1, <2>4 DEF Rename, Links, ExclusiveRename
    <3>2. Moves' = Moves /\ Contents' = Contents /\ durable' = durable /\ ~ExclusiveRename'
      BY <2>1, <3>1, Frame
    <3>3. Types' /\ Early' /\ Renaming' /\ MarkerIsLast'
      BY <2>1, <2>2, <3>1, <3>2
         DEF PublishInv, Types, Early, Renaming, MarkerIsLast, BeforeTheCheck, diskVars, syncVars
    <3>4. RollingBack' /\ Answered' /\ Synced'
      BY <2>1, <3>1, <3>2 DEF PublishInv, RollingBack, Answered, Synced, replyVars, syncVars
    <3>. QED  BY <3>3, <3>4 DEF PublishInv
  <2>. QED  BY <2>3, <2>4
<1>2. CASE Unlink
  <2>1. at = "unlinking" /\ Ours = 1 .. k /\ Owned
    BY <1>2 DEF Unlink, PublishInv, Renaming, Types
  <2>2. Owned' /\ Ours' = 1 .. k
    BY <1>2, <2>1, Frame DEF Unlink, Owned
  <2>. QED  BY <1>2, <2>1, <2>2, AdvanceKeeps DEF Unlink
<1>. QED  BY <1>1, <1>2, BackKeeps, UndoKeeps, EndKeeps DEF Commit

\* The rest of the machine: the names others take and give up are not ours.
LEMMA OthersKeep ==
  ASSUME NFiles \in Nat \ {0}, PublishInv, Others \/ Stop
  PROVE  PublishInv'
<1>1. UNCHANGED <<callVars, at, k, syncVars, rollback_failed, replyVars, diskVars>>
  BY DEF Others, OthersCreate, OthersRemove, Stop
<1>2. Owned' /\ Ours' = Ours /\ \A n \in Moves : dest[n] = "ours" => dest'[n] = "ours"
  <2>1. CASE Stop
    BY <1>1, <2>1, Frame DEF Stop, PublishInv, Types, Owned
  <2>2. CASE Others
    <3>1. PICK n \in Moves, who \in {"free", "others"} :
            dest[n] # "ours" /\ dest' = [dest EXCEPT ![n] = who]
      BY <2>2 DEF Others, OthersCreate, OthersRemove
    <3>2. Moves' = Moves /\ Moves \subseteq Files
      BY <1>1, Frame, Counted
    <3>. QED  BY <3>1, <3>2 DEF PublishInv, Types, Owned, Ours
  <2>. QED  BY <2>1, <2>2
<1>3. Moves' = Moves /\ LastMove' = LastMove /\ Contents' = Contents /\ durable' = durable
      /\ (ExclusiveRename' <=> ExclusiveRename)
  BY <1>1, Frame
<1>4. Types'
  BY <1>1, <1>2, <1>3 DEF PublishInv, Types, syncVars, diskVars
<1>5. Early' /\ Renaming' /\ RollingBack' /\ Answered' /\ MarkerIsLast'
  BY <1>1, <1>2, <1>3
     DEF PublishInv, Early, Renaming, RollingBack, Answered, MarkerIsLast, BeforeTheCheck, replyVars
<1>6. Synced'
  BY <1>1, <1>2, <1>3 DEF PublishInv, Synced, syncVars, diskVars, replyVars
<1>. QED  BY <1>4, <1>5, <1>6 DEF PublishInv

LEMMA KillKeeps == ASSUME NFiles \in Nat \ {0}, PublishInv, Kill PROVE PublishInv'
<1>1. /\ at \notin {"done", "killed", "off"} /\ at' = "killed" /\ answer' = "none"
      /\ UNCHANGED <<callVars, k, syncVars, rollback_failed, effect, dest, diskVars>>
  BY DEF Kill, Unanswered
<1>2. Moves' = Moves /\ LastMove' = LastMove /\ durable' = durable /\ Ours' = Ours
      /\ (ExclusiveRename' <=> ExclusiveRename)
  BY <1>1, Frame
<1>3. Types' /\ Early' /\ Renaming' /\ RollingBack' /\ Answered' /\ Synced'
  BY <1>1, <1>2 DEF PublishInv, Types, Owned, Early, Renaming, RollingBack, Answered, Synced,
                    BeforeTheCheck, syncVars, diskVars
<1>4. MarkerIsLast'
  BY <1>1, <1>2 DEF PublishInv, MarkerIsLast
<1>. QED  BY <1>3, <1>4 DEF PublishInv

\* What was synchronised in whole is kept in whole.
LEMMA PowerLossKeeps == ASSUME NFiles \in Nat \ {0}, PublishInv, Record, PowerLoss PROVE PublishInv'
<1>1. /\ at # "off" /\ at' = "off" /\ answer' = IF at = "done" THEN answer ELSE "none"
      /\ UNCHANGED <<callVars, stopped, k, syncVars, rollback_failed, effect, entries>>
      /\ damaged' \in SUBSET AtRisk
  BY DEF PowerLoss, Unanswered
<1>2. PICK kept \in SUBSET Moves :
        dest' = [n \in Files |-> IF n \in kept \cup (Files \ Moves) THEN dest[n] ELSE entries[n]]
  BY DEF PowerLoss
<1>3. Moves' = Moves /\ Contents' = Contents /\ durable' = durable /\ Moves \subseteq Files
  BY <1>1, Frame, Counted
<1>4. Types'
  BY <1>1, <1>2, <1>3 DEF PublishInv, Types, Owned, Record, syncVars
<1>5. Early' /\ Renaming' /\ RollingBack' /\ Answered' /\ MarkerIsLast'
  BY <1>1 DEF Early, Renaming, RollingBack, Answered, MarkerIsLast, BeforeTheCheck
<1>6. Synced'
  <2>. SUFFICES ASSUME durable, answer' = "published"
       PROVE  /\ Contents \subseteq synced /\ confirmed /\ damaged' = {}
              /\ \A n \in Moves : dest'[n] = "ours" /\ entries[n] = "ours"
    BY <1>1, <1>3 DEF Synced, syncVars
  <2>1. /\ Contents \subseteq synced /\ confirmed
        /\ \A n \in Moves : dest[n] = "ours" /\ entries[n] = "ours"
    BY <1>1 DEF PublishInv, Synced
  <2>2. AtRisk = {}
    BY <2>1 DEF AtRisk
  <2>. QED  BY <1>1, <1>2, <1>3, <2>1, <2>2
<1>. QED  BY <1>4, <1>5, <1>6 DEF PublishInv

LEMMA RecordInit == ASSUME NFiles \in Nat \ {0} PROVE Init => Record
<1>. SUFFICES ASSUME Init PROVE Record
  OBVIOUS
<1>1. entries \in [Files -> {"free", "others"}] /\ Moves \subseteq Files
  BY Counted DEF Init
<1>. QED  BY <1>1 DEF Record

LEMMA RecordStep ==
  ASSUME NFiles \in Nat \ {0}, PublishInv, Record, [Next]_vars
  PROVE  Record'
<1>1. ASSUME UNCHANGED <<callVars, entries>>,
             at' # "off" => at # "off" /\ (at = "done" => at' = "done" /\ answer' = answer)
      PROVE  Record'
  BY <1>1, Frame DEF Record
<1>2. CASE Prepare
  BY <1>1, <1>2 DEF Prepare, Preflight, Measure, SyncFile, SyncStaging, Check, diskVars
<1>3. CASE Finalize
  <2>1. at = "finalizing" /\ at' = "done" /\ answer' \in Successes /\ (entries' = dest \/ entries' = entries)
    BY <1>3 DEF Finalize, Successes
  <2>. QED  BY <2>1 DEF Record, PublishInv, Types, Owned
<1>4. CASE Rename \/ RenameFails \/ Unlink \/ UnlinkFails \/ Undo \/ EndRollback
  BY <1>1, <1>4 DEF Rename, RenameFails, Unlink, UnlinkFails, Undo, EndRollback, diskVars
<1>5. CASE Others \/ Stop \/ Kill \/ PowerLoss
  BY <1>1, <1>5 DEF Others, OthersCreate, OthersRemove, Stop, Kill, PowerLoss, diskVars, replyVars
<1>6. CASE Off \/ UNCHANGED vars
  BY <1>1, <1>6 DEF Off, vars, diskVars, replyVars
<1>. QED  BY <1>2, <1>3, <1>4, <1>5, <1>6 DEF Next, Commit

LEMMA PublishStep ==
  ASSUME NFiles \in Nat \ {0}
  PROVE  PublishInv /\ Record /\ [Next]_vars => PublishInv' /\ Record'
<1>. SUFFICES ASSUME PublishInv, Record, [Next]_vars PROVE PublishInv'
  BY RecordStep
<1>1. CASE Off \/ UNCHANGED vars
  <2>1. UNCHANGED vars
    BY <1>1 DEF Off
  <2>2. UNCHANGED callVars /\ UNCHANGED <<at, k, synced, confirmed, rollback_failed, answer, effect,
                                         dest, entries, damaged>>
    BY <2>1 DEF vars, syncVars, replyVars, diskVars
  <2>3. Types' /\ Early' /\ Renaming' /\ RollingBack'
    BY <2>2, Frame DEF PublishInv, Types, Owned, Early, Renaming, RollingBack, BeforeTheCheck
  <2>4. Answered' /\ Synced' /\ MarkerIsLast'
    BY <2>2, Frame DEF PublishInv, Answered, Synced, MarkerIsLast
  <2>. QED  BY <2>3, <2>4 DEF PublishInv
<1>. QED  BY <1>1, PrepareKeeps, CommitKeeps, OthersKeep, KillKeeps, PowerLossKeeps DEF Next

-----------------------------------------------------------------------------
(* What a call declares *)

LEMMA InvIsTrue == PublishInv => OutcomeIsTrue
<1>. SUFFICES ASSUME PublishInv PROVE OutcomeIsTrue
  OBVIOUS
<1>1. ExclusiveRename /\ at # "off" /\ LastMove \in Ours => Ours = Moves
  BY DEF PublishInv, MarkerIsLast
<1>2. PublishedSurvivesPowerLoss
  BY DEF PublishedSurvivesPowerLoss, PublishInv, Synced, Ours
<1>3. at = "done" /\ answer \in Successes => Ours = Moves
  BY DEF PublishInv, Answered, Successes, Failures
<1>4. ExclusiveRename => NoneMeansNothingVisible
  BY DEF NoneMeansNothingVisible, Failed, PublishInv, Answered, Successes, Failures
<1>5. Failed /\ effect = "partial" => Ours # {}
  BY DEF Failed, PublishInv, Answered, Successes, Failures
<1>. QED  BY <1>1, <1>2, <1>3, <1>4, <1>5 DEF OutcomeIsTrue

\* For a set of any number of files, on any platform: a success has published
\* all of them, and in the durable profile for good; an error without effect
\* has left nothing and a partial one something; and the marker is never seen
\* without the set (publish_file, publish_directory, publish_file_set).
THEOREM OutcomeTrue == ASSUME NFiles \in Nat \ {0} PROVE Spec => []OutcomeIsTrue
<1>1. Init => PublishInv /\ Record
  BY PublishInit, RecordInit
<1>2. PublishInv /\ Record /\ [Next]_vars => PublishInv' /\ Record'
  BY PublishStep
<1>3. PublishInv => OutcomeIsTrue
  BY InvIsTrue
<1>. QED  BY <1>1, <1>2, <1>3, PTL DEF Spec

LEMMA StepClobbersNothing ==
  ASSUME NFiles \in Nat \ {0}, PublishInv, Prepare \/ Commit, NEW n \in Files, dest[n] = "others"
  PROVE  dest'[n] = "others"
<1>1. CASE Rename
  BY <1>1 DEF Rename, PublishInv, Types, Owned
<1>2. CASE Undo
  <2>1. k \in Ours
    BY <1>2 DEF Undo, PublishInv, RollingBack, Types
  <2>2. dest[k] = "ours" /\ (dest' = [dest EXCEPT ![k] = "free"] \/ dest' = dest)
    BY <1>2, <2>1 DEF Undo, Ours
  <2>. QED  BY <2>2 DEF PublishInv, Types, Owned
<1>3. CASE Prepare \/ RenameFails \/ Unlink \/ UnlinkFails \/ EndRollback \/ Finalize
  BY <1>3 DEF Prepare, Preflight, Measure, SyncFile, SyncStaging, Check, RenameFails, Unlink,
              UnlinkFails, EndRollback, Finalize
<1>. QED  BY <1>1, <1>2, <1>3 DEF Commit

\* The call never replaces the file of another process, nor removes it while
\* it rolls back (rename_noclobber, rollback_rename).
THEOREM ClobbersNothing == ASSUME NFiles \in Nat \ {0} PROVE Spec => NeverClobbers
<1>1. Init => PublishInv /\ Record
  BY PublishInit, RecordInit
<1>2. PublishInv /\ Record /\ [Next]_vars => PublishInv' /\ Record'
  BY PublishStep
<1>3. PublishInv =>
        (Prepare \/ Commit => \A n \in Files : dest[n] = "others" => dest'[n] = "others")
  BY StepClobbersNothing
<1>. QED  BY <1>1, <1>2, <1>3, PTL DEF Spec, NeverClobbers

-----------------------------------------------------------------------------
(* A stop that was seen *)

\* Stopped before the last look: nothing of ours is there or on record, and
\* the publisher is at the end or before that look.
StoppedInTime ==
  /\ stopped /\ Ours = {}
  /\ \A n \in Moves : entries[n] # "ours"
  /\ BeforeTheCheck \/ at \in {"done", "killed", "off"}

LEMMA StoppedStep ==
  ASSUME NFiles \in Nat \ {0}, PublishInv, StoppedInTime, [Next]_vars
  PROVE  StoppedInTime'
<1>1. ASSUME UNCHANGED <<callVars, stopped, entries>>, Ours' = Ours,
             BeforeTheCheck' \/ at' \in {"done", "killed", "off"}
      PROVE  StoppedInTime'
  BY <1>1, Frame DEF StoppedInTime
<1>2. CASE Prepare
  <2>1. UNCHANGED <<callVars, stopped, entries, dest>>
    BY <1>2 DEF Prepare, Preflight, Measure, SyncFile, SyncStaging, Check, diskVars
  <2>2. BeforeTheCheck' \/ at' = "done"
    BY <1>2 DEF Prepare, Preflight, Measure, SyncFile, SyncStaging, Check, Refuse, Goto, Step,
                BeforeTheCheck, StoppedInTime
  <2>. QED  BY <1>1, <2>1, <2>2, Frame
<1>3. CASE Commit
  BY <1>3 DEF Commit, Rename, RenameFails, Unlink, UnlinkFails, Undo, EndRollback, Finalize,
              StoppedInTime, BeforeTheCheck
<1>4. CASE Others
  <2>1. UNCHANGED <<callVars, stopped, entries, at>>
    BY <1>4 DEF Others, OthersCreate, OthersRemove, diskVars
  <2>2. Ours' = Ours
    <3>1. PICK n \in Moves, who \in {"free", "others"} :
            dest[n] # "ours" /\ dest' = [dest EXCEPT ![n] = who]
      BY <1>4 DEF Others, OthersCreate, OthersRemove
    <3>. QED  BY <2>1, <3>1, Frame, Counted DEF PublishInv, Types, Owned, Ours
  <2>. QED  BY <1>1, <2>1, <2>2 DEF StoppedInTime, BeforeTheCheck
<1>5. CASE Kill \/ Off \/ UNCHANGED vars
  <2>1. UNCHANGED <<callVars, stopped, entries, dest>> /\ (at' = at \/ at' = "killed")
    BY <1>5 DEF Kill, Off, vars, diskVars
  <2>. QED  BY <1>1, <2>1, Frame DEF StoppedInTime, BeforeTheCheck
<1>6. CASE PowerLoss
  <2>1. UNCHANGED <<callVars, stopped, entries>> /\ at' = "off"
    BY <1>6 DEF PowerLoss
  <2>2. Ours' = {}
    <3>1. PICK kept \in SUBSET Moves :
            dest' = [n \in Files |-> IF n \in kept \cup (Files \ Moves) THEN dest[n] ELSE entries[n]]
      BY <1>6 DEF PowerLoss
    <3>2. \A n \in Moves : n \in Files /\ dest[n] # "ours" /\ entries[n] # "ours"
      BY Counted DEF StoppedInTime, Ours
    <3>3. \A n \in Moves : dest'[n] # "ours"
      BY <3>1, <3>2
    <3>. QED  BY <2>1, <3>3, Frame DEF Ours
  <2>. QED  BY <1>1, <2>1, <2>2 DEF StoppedInTime
<1>7. CASE Stop
  BY <1>7 DEF Stop, StoppedInTime
<1>. QED  BY <1>2, <1>3, <1>4, <1>5, <1>6, <1>7 DEF Next

\* A stop that comes before the last look at the context, however long the
\* fsyncs before it take, keeps the output invisible for ever (ancora_attiva).
THEOREM StopIsObserved == ASSUME NFiles \in Nat \ {0} PROVE Spec => ObservedStopPublishesNothing
<1>1. Init => PublishInv /\ Record
  BY PublishInit, RecordInit
<1>2. PublishInv /\ Record /\ [Next]_vars => PublishInv' /\ Record'
  BY PublishStep
<1>3. PublishInv /\ Record /\ stopped /\ BeforeTheCheck => StoppedInTime
  BY DEF StoppedInTime, PublishInv, Early, Record, BeforeTheCheck
<1>4. PublishInv /\ StoppedInTime /\ [Next]_vars => StoppedInTime'
  BY StoppedStep
<1>5. StoppedInTime => Ours = {}
  BY DEF StoppedInTime
<1>. QED  BY <1>1, <1>2, <1>3, <1>4, <1>5, PTL DEF Spec, ObservedStopPublishesNothing

-----------------------------------------------------------------------------
(* One act *)

\* A single file or a directory has one name.
LEMMA OneName ==
  ASSUME mode # "set"
  PROVE  Moves = {1} /\ LastMove = 1 /\ (Ours = {} \/ Ours = Moves)
BY DEF Moves, LastMove, Ours

\* A step that moves no file of ours and says nothing new.
LEMMA Quiet ==
  ASSUME UNCHANGED <<callVars, damaged>>, Ours' = Ours, Outcome' = Outcome
  PROVE  UNCHANGED Promise!vars
BY Frame DEF callVars, Visible, Promise!vars

\* For a loose set the promise says nothing.
LEMMA SetIsSilent == ASSUME UNCHANGED mode, UNCHANGED durable, mode = "set" PROVE UNCHANGED Promise!vars
BY DEF Visible, Outcome, Promise!vars

\* Where the caller has no answer.
LEMMA OpenIs ==
  ASSUME mode # "set", PublishInv, at \notin {"done", "killed", "off"}
  PROVE  Outcome = "open" /\ answer \notin Successes /\ damaged = {}
<1>1. answer \notin Successes
  BY DEF PublishInv, Answered, RollingBack, Successes, Failures
<1>. QED  BY <1>1 DEF Outcome, PublishInv, Types

LEMMA PrepareRefines ==
  ASSUME mode # "set", PublishInv, Prepare
  PROVE  [Promise!Next]_Promise!vars
<1>1. /\ UNCHANGED <<callVars, dest, diskVars>> /\ BeforeTheCheck
      /\ \/ \E error \in Failures : Refuse(error)
         \/ at' \in {"preflight", "measuring", "syncing", "syncing_dir", "checking", "renaming"}
            /\ UNCHANGED replyVars
  BY DEF Prepare, Preflight, Measure, SyncFile, SyncStaging, Check, Refuse, Goto, Step,
         BeforeTheCheck, Failures
<1>2. Ours = {} /\ Ours' = Ours /\ mode' = mode /\ durable' = durable /\ damaged' = damaged
  BY <1>1, Frame DEF PublishInv, Early, callVars, diskVars
<1>3. Outcome = "open" /\ answer \notin Successes
  BY <1>1, OpenIs DEF BeforeTheCheck
<1>4. CASE \E error \in Failures : Refuse(error)
  <2>1. Outcome' = "failed"
    BY <1>2, <1>4 DEF Refuse, Outcome, Failures, Successes
  <2>. QED  BY <1>2, <1>3, <2>1 DEF Visible, Promise!Next, Promise!Answer
<1>5. CASE at' \in {"preflight", "measuring", "syncing", "syncing_dir", "checking", "renaming"}
           /\ UNCHANGED replyVars
  <2>1. Outcome' = "open"
    BY <1>2, <1>3, <1>5 DEF Outcome, replyVars
  <2>. QED  BY <1>1, <1>2, <1>3, <2>1, Quiet DEF diskVars
<1>. QED  BY <1>1, <1>4, <1>5

LEMMA CommitRefines ==
  ASSUME NFiles \in Nat \ {0}, mode # "set", PublishInv, Commit
  PROVE  [Promise!Next]_Promise!vars
<1>1. at \in {"renaming", "unlinking", "rollback", "finalizing"} /\ UNCHANGED <<callVars, damaged>>
  BY DEF Commit, Rename, RenameFails, Unlink, UnlinkFails, Undo, EndRollback, Finalize, diskVars
<1>2. Outcome = "open" /\ answer \notin Successes /\ damaged = {}
  BY <1>1, OpenIs
<1>3. mode' = mode /\ durable' = durable /\ Moves' = Moves /\ at # "unlinking"
  BY <1>1, Frame DEF callVars, PublishInv, Renaming, ExclusiveRename
<1>4. CASE Rename
  <2>1. k = 1 /\ Ours = {}
    BY <1>4, OneName DEF Rename, PublishInv, Renaming
  <2>2. Ours' = {1} /\ Moves = {1}
    BY <1>4, <1>1, <2>1, OneName, Named DEF PublishInv, Types, Rename
  <2>3. at' = "finalizing" /\ UNCHANGED replyVars
    BY <1>4, <2>1, OneName DEF Rename, Links, Advance, Goto
  <2>4. Outcome' = "open"
    BY <1>2, <1>3, <2>3 DEF Outcome, replyVars
  <2>5. Visible = "nothing" /\ Visible' = "all"
    BY <1>1, <1>2, <1>3, <2>1, <2>2 DEF Visible
  <2>. QED  BY <1>2, <1>3, <2>4, <2>5 DEF Promise!Next, Promise!Appear
<1>5. CASE RenameFails
  <2>1. at' = "rollback" /\ answer' \in Failures /\ dest' = dest
    BY <1>5 DEF RenameFails, Failures
  <2>2. Outcome' = "open"
    BY <1>3, <2>1 DEF Outcome, Failures, Successes
  <2>. QED  BY <1>1, <1>2, <2>1, <2>2, Quiet, Frame
<1>6. CASE EndRollback
  <2>1. at' = "done" /\ answer' = answer /\ dest' = dest
    BY <1>6 DEF EndRollback
  <2>2. Ours = {} /\ Ours' = {}
    BY <1>1, <1>6, <2>1, OneName, Frame DEF EndRollback, PublishInv, RollingBack, ExclusiveRename
  <2>3. Outcome' = "failed"
    BY <1>2, <1>3, <2>1 DEF Outcome
  <2>. QED  BY <1>2, <1>3, <2>2, <2>3 DEF Visible, Promise!Next, Promise!Answer
<1>7. CASE Finalize
  <2>1. answer' \in Successes /\ dest' = dest /\ Ours = Moves
    BY <1>7 DEF Finalize, Successes, PublishInv, Renaming
  <2>2. Outcome' = answer'
    BY <1>3, <2>1 DEF Outcome
  <2>3. Visible = "all" /\ Visible' = "all"
    BY <1>1, <1>2, <1>3, <2>1, OneName, Frame DEF Visible
  <2>. QED  BY <1>2, <1>3, <2>1, <2>2, <2>3 DEF Successes, Promise!Next, Promise!Answer
<1>8. ~ Undo
  BY OneName DEF Undo, PublishInv, RollingBack, Types
<1>. QED  BY <1>3, <1>4, <1>5, <1>6, <1>7, <1>8 DEF Commit, Unlink, UnlinkFails

LEMMA MachineRefines ==
  ASSUME NFiles \in Nat \ {0}, mode # "set", PublishInv, Others \/ Stop \/ Off \/ UNCHANGED vars
  PROVE  UNCHANGED Promise!vars
<1>1. UNCHANGED <<callVars, at, answer, damaged>>
  BY DEF Others, OthersCreate, OthersRemove, Stop, Off, vars, diskVars, replyVars
<1>2. Ours' = Ours
  <2>1. CASE Others
    <3>1. PICK n \in Moves, who \in {"free", "others"} :
            dest[n] # "ours" /\ dest' = [dest EXCEPT ![n] = who]
      BY <2>1 DEF Others, OthersCreate, OthersRemove
    <3>. QED  BY <1>1, <3>1, Frame, Counted DEF PublishInv, Types, Owned, Ours
  <2>2. CASE Stop \/ Off \/ UNCHANGED vars
    BY <1>1, <2>2, Frame DEF Stop, Off, vars
  <2>. QED  BY <2>1, <2>2
<1>3. Outcome' = Outcome
  BY <1>1 DEF callVars, Outcome
<1>. QED  BY <1>1, <1>2, <1>3, Quiet

LEMMA KillRefines ==
  ASSUME mode # "set", PublishInv, Kill
  PROVE  [Promise!Next]_Promise!vars
<1>1. /\ at \notin {"done", "killed", "off"} /\ at' = "killed" /\ answer' = "none"
      /\ UNCHANGED <<callVars, dest, damaged>>
  BY DEF Kill, Unanswered, diskVars
<1>2. Outcome = "open" /\ Outcome' = "dead"
  BY <1>1, OpenIs DEF callVars, Outcome, Successes, Failures
<1>3. Visible' = Visible /\ durable' = durable
  BY <1>1, Frame DEF callVars, Visible
<1>. QED  BY <1>2, <1>3 DEF Promise!Next, Promise!Die

LEMMA PowerLossRefines ==
  ASSUME NFiles \in Nat \ {0}, mode # "set", PublishInv, Record, PowerLoss, PublishInv'
  PROVE  [Promise!Next]_Promise!vars
<1>1. /\ at # "off" /\ at' = "off" /\ answer' = IF at = "done" THEN answer ELSE "none"
      /\ UNCHANGED <<callVars, entries>>
  BY DEF PowerLoss, Unanswered
<1>2. mode' = mode /\ durable' = durable /\ Moves' = Moves /\ Moves = {1}
  BY <1>1, Frame, OneName DEF callVars
<1>3. Outcome' = IF Outcome = "open" THEN "dead" ELSE Outcome
  <2>1. CASE at = "done"
    BY <1>1, <1>2, <2>1 DEF Outcome, PublishInv, Answered, Successes, Failures
  <2>2. CASE at = "killed"
    BY <1>1, <1>2, <2>2 DEF Outcome, PublishInv, Answered, Successes, Failures
  <2>3. CASE at \notin {"done", "killed"}
    BY <1>1, <1>2, <2>3, OpenIs DEF Outcome, Successes, Failures
  <2>. QED  BY <2>1, <2>2, <2>3
<1>4. ASSUME Outcome = "published", durable PROVE Visible' = Visible
  <2>1. answer = "published"
    BY <1>4, <1>1 DEF Outcome
  <2>2. at = "done" /\ answer' = "published"
    BY <1>1, <2>1 DEF PublishInv, RollingBack, Answered, Failures
  <2>3. damaged = {} /\ Ours = Moves
    BY <1>4, <2>1, <1>2 DEF PublishInv, Synced, Ours
  <2>4. damaged' = {} /\ Ours' = Moves
    BY <1>4, <2>2, <1>2 DEF PublishInv, Synced, Ours
  <2>. QED  BY <1>2, <2>3, <2>4 DEF Visible
<1>5. ASSUME Visible = "nothing" PROVE Visible' = "nothing"
  <2>1. Ours = {}
    BY <1>5 DEF Visible
  <2>2. entries[1] # "ours" /\ dest[1] # "ours" /\ 1 \in Files
    BY <1>1, <1>2, <2>1, Counted DEF Record, PublishInv, Answered, Successes, Failures, Ours
  <2>3. dest'[1] # "ours"
    BY <2>2 DEF PowerLoss
  <2>. QED  BY <1>2, <2>3 DEF Ours, Visible
<1>6. Visible' \in {"nothing", "all", "damaged"}
  BY DEF Visible
<1>. QED  BY <1>2, <1>3, <1>4, <1>5, <1>6 DEF Promise!Next, Promise!PowerLoss

\* The publication of a file or of a directory implements the promise of
\* docs/PRODUCT.md, for any number of files under the directory: one step
\* shows the whole output, every answer is about the output that stays, and
\* what was confirmed as durable survives a loss of power.
THEOREM OneAct == ASSUME NFiles \in Nat \ {0} PROVE Spec => CrashAtomicSpec
<1>1. Init => PublishInv /\ Record
  BY PublishInit, RecordInit
<1>2. PublishInv /\ Record /\ [Next]_vars => PublishInv' /\ Record'
  BY PublishStep
<1>3. Init => Promise!Init
  <2>. SUFFICES ASSUME Init PROVE Promise!Init
    OBVIOUS
  <2>1. Ours = {}
    BY <1>1 DEF PublishInv, Early, Init, BeforeTheCheck
  <2>2. Visible = "nothing" /\ Outcome = "open"
    BY <2>1 DEF Init, Visible, Outcome, Successes, Failures
  <2>. QED  BY <2>2 DEF Init, Promise!Init
<1>4. PublishInv /\ Record /\ [Next]_vars /\ PublishInv' => [Promise!Next]_Promise!vars
  <2>. SUFFICES ASSUME PublishInv, Record, [Next]_vars, PublishInv'
       PROVE  [Promise!Next]_Promise!vars
    OBVIOUS
  <2>1. CASE mode = "set"
    <3>1. UNCHANGED <<mode, durable>>
      BY DEF Next, Prepare, Preflight, Measure, SyncFile, SyncStaging, Check, Commit, Rename,
             RenameFails, Unlink, UnlinkFails, Undo, EndRollback, Finalize, Stop, Others,
             OthersCreate, OthersRemove, Kill, PowerLoss, Off, vars, callVars
    <3>. QED  BY <2>1, <3>1, SetIsSilent
  <2>2. CASE mode # "set"
    BY <2>2, PrepareRefines, CommitRefines, MachineRefines, KillRefines, PowerLossRefines DEF Next
  <2>. QED  BY <2>1, <2>2
<1>. QED  BY <1>1, <1>2, <1>3, <1>4, PTL DEF Spec, CrashAtomicSpec, Promise!Spec

-----------------------------------------------------------------------------
(* PART 2.  The command *)

-----------------------------------------------------------------------------
(* The batches laid end to end *)

\* The recursion of FlattenSeq, with g in place of the function defined.
Laid(ss, g, n) == [i \in 1 .. n |-> IF i = 1 THEN ss[i] ELSE g[i - 1] \o ss[i]]

LEMMA LaidExists ==
  ASSUME NEW ss
  PROVE  \A n \in Nat : \E g : g = Laid(ss, g, n)
<1>. DEFINE T == {n \in Nat : \E g : g = Laid(ss, g, n)}
<1>1. 0 \in T
  <2>. DEFINE g0 == [i \in 1 .. 0 |-> ss[i]]
  <2>1. g0 = Laid(ss, g0, 0)
    BY DEF Laid
  <2>. QED  BY <2>1
<1>2. ASSUME NEW n \in T PROVE n + 1 \in T
  <2>1. PICK g : g = Laid(ss, g, n)
    BY <1>2
  <2>. DEFINE h == [i \in 1 .. n + 1 |-> IF i = n + 1 THEN IF i = 1 THEN ss[i] ELSE g[n] \o ss[i]
                                         ELSE g[i]]
  <2>2. ASSUME NEW i \in 1 .. n + 1 PROVE h[i] = IF i = 1 THEN ss[i] ELSE h[i - 1] \o ss[i]
    <3>1. CASE i = n + 1
      <4>1. CASE i = 1
        BY <3>1, <4>1
      <4>2. CASE i # 1
        <5>1. i - 1 = n /\ n \in 1 .. n + 1 /\ n # n + 1
          BY <3>1, <4>2
        <5>2. h[i - 1] = g[n]
          BY <5>1
        <5>. QED  BY <3>1, <4>2, <5>2
      <4>. QED  BY <4>1, <4>2
    <3>2. CASE i \in 1 .. n
      <4>1. g[i] = IF i = 1 THEN ss[i] ELSE g[i - 1] \o ss[i]
        BY <2>1, <3>2 DEF Laid
      <4>2. h[i] = g[i] /\ (i # 1 => h[i - 1] = g[i - 1])
        BY <3>2
      <4>. QED  BY <4>1, <4>2
    <3>. QED  BY <3>1, <3>2
  <2>3. h = [i \in 1 .. n + 1 |-> h[i]]
    OBVIOUS
  <2>. HIDE DEF h
  <2>4. h = Laid(ss, h, n + 1)
    BY <2>2, <2>3 DEF Laid
  <2>. QED  BY <2>4
<1>. HIDE DEF T
<1>3. T = Nat
  BY <1>1, <1>2, SetInduction DEF T
<1>. QED  BY <1>3 DEF T

LEMMA FlattenEmpty == FlattenSeq(<< >>) = << >>
BY DEF FlattenSeq

\* What is flattened, as one function over the places of ss.
LEMMA FlattenLaid ==
  ASSUME NEW ss, Len(ss) \in Nat, Len(ss) # 0
  PROVE  \E g : g = Laid(ss, g, Len(ss)) /\ FlattenSeq(ss) = g[Len(ss)]
<1>. DEFINE flatten == CHOOSE g : g = Laid(ss, g, Len(ss))
<1>1. \E g : g = Laid(ss, g, Len(ss))
  BY LaidExists
<1>2. flatten = Laid(ss, flatten, Len(ss))
  BY <1>1
<1>3. FlattenSeq(ss) = flatten[Len(ss)]
  BY DEF FlattenSeq, Laid
<1>. QED  BY <1>2, <1>3

\* Functions that satisfy the recursion agree where they are both defined.
LEMMA LaidAgree ==
  ASSUME NEW ss, NEW tt, NEW m \in Nat, NEW n \in Nat, m <= n,
         \A i \in 1 .. m : ss[i] = tt[i],
         NEW g, g = Laid(ss, g, m), NEW h, h = Laid(tt, h, n)
  PROVE  \A i \in 1 .. m : g[i] = h[i]
<1>. DEFINE T == {kk \in Nat : kk \in 1 .. m => g[kk] = h[kk]}
<1>0. 0 \in T
  OBVIOUS
<1>1. ASSUME NEW kk \in T PROVE kk + 1 \in T
  <2>1. CASE kk + 1 \in 1 .. m
    <3>1. g[kk + 1] = (IF kk + 1 = 1 THEN ss[kk + 1] ELSE g[(kk + 1) - 1] \o ss[kk + 1])
      BY <2>1 DEF Laid
    <3>2. h[kk + 1] = (IF kk + 1 = 1 THEN tt[kk + 1] ELSE h[(kk + 1) - 1] \o tt[kk + 1])
      <4>1. kk + 1 \in 1 .. n
        BY <2>1
      <4>. QED  BY <4>1 DEF Laid
    <3>3. (kk + 1) - 1 = kk /\ (kk + 1 # 1 => g[kk] = h[kk]) /\ ss[kk + 1] = tt[kk + 1]
      BY <2>1
    <3>. QED  BY <3>1, <3>2, <3>3
  <2>. QED  BY <2>1
<1>. HIDE DEF T
<1>2. T = Nat
  BY <1>0, <1>1, SetInduction DEF T
<1>. QED  BY <1>2 DEF T

LEMMA FlattenAppend ==
  ASSUME NEW S, NEW ss \in Seq(Seq(S)), NEW e \in Seq(S)
  PROVE  FlattenSeq(Append(ss, e)) = FlattenSeq(ss) \o e
<1>. DEFINE n == Len(ss)
            tt == Append(ss, e)
<1>1. n \in Nat /\ Len(tt) = n + 1 /\ tt[n + 1] = e /\ \A i \in 1 .. n : tt[i] = ss[i]
  OBVIOUS
<1>. HIDE DEF tt
<1>2. PICK h : h = Laid(tt, h, n + 1) /\ FlattenSeq(tt) = h[n + 1]
  BY <1>1, FlattenLaid
<1>3. CASE n = 0
  <2>1. ss = << >>
    BY <1>3
  <2>2. h[n + 1] = tt[n + 1]
    BY <1>2, <1>3 DEF Laid
  <2>3. FlattenSeq(ss) \o e = e
    BY <2>1, FlattenEmpty
  <2>. QED  BY <1>1, <1>2, <2>2, <2>3 DEF tt
<1>4. CASE n # 0
  <2>1. PICK g : g = Laid(ss, g, n) /\ FlattenSeq(ss) = g[n]
    BY <1>1, <1>4, FlattenLaid
  <2>2. g[n] = h[n]
    <3>1. n \in 1 .. n /\ n <= n + 1 /\ n + 1 \in Nat
      BY <1>1, <1>4
    <3>. HIDE DEF n
    <3>. QED  BY <1>1, <1>2, <2>1, <3>1, LaidAgree
  <2>3. h[n + 1] = h[n] \o tt[n + 1]
    <3>1. n + 1 \in 1 .. n + 1 /\ n + 1 # 1 /\ (n + 1) - 1 = n
      BY <1>1, <1>4
    <3>. HIDE DEF n
    <3>. QED  BY <1>2, <3>1 DEF Laid
  <2>. QED  BY <1>1, <1>2, <2>1, <2>2, <2>3 DEF tt
<1>. QED  BY <1>3, <1>4

\* The sequences flattened keep their elements, in order, whatever follows.
LEMMA FlattenTyped ==
  ASSUME NEW S, NEW ss \in Seq(Seq(S))
  PROVE  FlattenSeq(ss) \in Seq(S)
<1>. DEFINE n == Len(ss)
<1>1. CASE n = 0
  <2>1. ss = << >>
    BY <1>1
  <2>2. FlattenSeq(ss) = << >>
    BY <2>1, FlattenEmpty
  <2>3. << >> \in Seq(S)
    OBVIOUS
  <2>. QED  BY <2>2, <2>3
<1>2. CASE n # 0
  <2>1. n \in Nat /\ \A i \in 1 .. n : ss[i] \in Seq(S)
    OBVIOUS
  <2>2. PICK g : g = Laid(ss, g, n) /\ FlattenSeq(ss) = g[n]
    BY <2>1, <1>2, FlattenLaid
  <2>. DEFINE T == {kk \in Nat : kk \in 1 .. n => g[kk] \in Seq(S)}
  <2>3. 0 \in T
    OBVIOUS
  <2>4. ASSUME NEW kk \in T PROVE kk + 1 \in T
    <3>1. CASE kk + 1 \in 1 .. n
      <4>1. g[kk + 1] = (IF kk + 1 = 1 THEN ss[kk + 1] ELSE g[(kk + 1) - 1] \o ss[kk + 1])
        BY <2>2, <3>1 DEF Laid
      <4>2. (kk + 1) - 1 = kk /\ (kk + 1 # 1 => g[kk] \in Seq(S)) /\ ss[kk + 1] \in Seq(S)
        BY <2>1, <3>1
      <4>3. g[kk + 1] \in Seq(S)
        <5>1. CASE kk + 1 = 1
          BY <4>1, <4>2, <5>1
        <5>2. CASE kk + 1 # 1
          <6>1. g[kk] \o ss[kk + 1] \in Seq(S)
            BY <4>2, <5>2
          <6>2. g[kk + 1] = g[kk] \o ss[kk + 1]
            BY <4>1, <4>2, <5>2
          <6>. QED  BY <6>1, <6>2
        <5>. QED  BY <5>1, <5>2
      <4>. QED  BY <4>3
    <3>. QED  BY <3>1
  <2>. HIDE DEF T
  <2>5. T = Nat
    BY <2>3, <2>4, SetInduction DEF T
  <2>6. n \in T /\ n \in 1 .. n
    BY <2>1, <2>5, <1>2
  <2>. QED  BY <2>2, <2>6 DEF T
<1>. QED  BY <1>1, <1>2

\* Two sequences laid one after the other.
LEMMA Joined ==
  ASSUME NEW S, NEW L \in Seq(S), NEW R \in Seq(S), NEW W \in Seq(S),
         Len(W) = Len(L) + Len(R),
         \A i \in 1 .. Len(L) : W[i] = L[i],
         \A i \in 1 .. Len(R) : W[i + Len(L)] = R[i]
  PROVE  W = L \o R
<1>1. Len(L) \in Nat /\ Len(R) \in Nat /\ L \o R \in Seq(S) /\ Len(L \o R) = Len(L) + Len(R)
  OBVIOUS
<1>2. ASSUME NEW i \in 1 .. Len(W) PROVE W[i] = (L \o R)[i]
  <2>1. CASE i <= Len(L)
    BY <1>1, <2>1
  <2>2. CASE i > Len(L)
    <3>1. i - Len(L) \in 1 .. Len(R) /\ (i - Len(L)) + Len(L) = i
      BY <1>1, <2>2
    <3>2. W[i] = R[i - Len(L)]
      BY <3>1
    <3>3. (L \o R)[i] = R[i - Len(L)]
      BY <1>1, <2>2
    <3>. QED  BY <3>2, <3>3
  <2>. QED  BY <1>1, <2>1, <2>2
<1>. QED  BY <1>1, <1>2

LEMMA ConcatAppend ==
  ASSUME NEW S, NEW a \in Seq(S), NEW b \in Seq(S), NEW e \in S
  PROVE  a \o Append(b, e) = Append(a \o b, e)
<1>1. Append(b, e) = b \o <<e>> /\ <<e>> \in Seq(S) /\ a \o b \in Seq(S)
  OBVIOUS
<1>2. Append(a \o b, e) = (a \o b) \o <<e>>
  BY <1>1
<1>3. (a \o b) \o <<e>> = a \o (b \o <<e>>)
  BY <1>1, ConcatAssociative
<1>. QED  BY <1>1, <1>2, <1>3

LEMMA FlattenConcat ==
  ASSUME NEW S, NEW ss \in Seq(Seq(S)), NEW tt \in Seq(Seq(S))
  PROVE  FlattenSeq(ss \o tt) = FlattenSeq(ss) \o FlattenSeq(tt)
<1>. DEFINE Upto(kk) == SubSeq(tt, 1, kk)
            T == {kk \in Nat : kk <= Len(tt) =>
                    FlattenSeq(ss \o Upto(kk)) = FlattenSeq(ss) \o FlattenSeq(Upto(kk))}
<1>1. 0 \in T
  <2>1. Upto(0) = << >>
    OBVIOUS
  <2>2. ss \o << >> = ss /\ FlattenSeq(ss) \o << >> = FlattenSeq(ss)
    BY FlattenTyped
  <2>. QED  BY <2>1, <2>2, FlattenEmpty
<1>2. ASSUME NEW kk \in T, kk + 1 <= Len(tt) PROVE FlattenSeq(ss \o Upto(kk + 1)) = FlattenSeq(ss) \o FlattenSeq(Upto(kk + 1))
  <2>1. kk \in Nat /\ kk <= Len(tt) /\ tt[kk + 1] \in Seq(S) /\ Upto(kk) \in Seq(Seq(S))
    BY <1>2
  <2>2. FlattenSeq(ss \o Upto(kk)) = FlattenSeq(ss) \o FlattenSeq(Upto(kk))
    BY <1>2, <2>1
  <2>3. Upto(kk + 1) = Append(Upto(kk), tt[kk + 1])
    BY <1>2, <2>1
  <2>. HIDE DEF Upto
  <2>4. ss \o Upto(kk + 1) = Append(ss \o Upto(kk), tt[kk + 1])
    <3>1. ASSUME NEW a \in Seq(Seq(S)), NEW b \in Seq(Seq(S)), NEW e \in Seq(S)
          PROVE  a \o Append(b, e) = Append(a \o b, e)
      BY ConcatAppend
    <3>. QED  BY <2>1, <2>3, <3>1
  <2>5. FlattenSeq(Upto(kk + 1)) = FlattenSeq(Upto(kk)) \o tt[kk + 1]
    BY <2>1, <2>3, FlattenAppend
  <2>6. FlattenSeq(ss \o Upto(kk + 1)) = FlattenSeq(ss \o Upto(kk)) \o tt[kk + 1]
    <3>1. ss \o Upto(kk) \in Seq(Seq(S))
      BY <2>1
    <3>. QED  BY <2>1, <2>4, <3>1, FlattenAppend
  <2>7. FlattenSeq(ss) \in Seq(S) /\ FlattenSeq(Upto(kk)) \in Seq(S)
    BY <2>1, FlattenTyped
  <2>8. (FlattenSeq(ss) \o FlattenSeq(Upto(kk))) \o tt[kk + 1]
          = FlattenSeq(ss) \o (FlattenSeq(Upto(kk)) \o tt[kk + 1])
    <3>1. ASSUME NEW a \in Seq(S), NEW b \in Seq(S), NEW e \in Seq(S)
          PROVE  (a \o b) \o e = a \o (b \o e)
      BY ConcatAssociative
    <3>. QED  BY <2>1, <2>7, <3>1
  <2>. QED  BY <2>2, <2>5, <2>6, <2>8
<1>3. T = Nat
  <2>1. ASSUME NEW kk \in T PROVE kk + 1 \in T
    <3>1. kk \in Nat
      OBVIOUS
    <3>. HIDE DEF Upto
    <3>2. CASE kk + 1 <= Len(tt)
      <4>1. FlattenSeq(ss \o Upto(kk + 1)) = FlattenSeq(ss) \o FlattenSeq(Upto(kk + 1))
        BY <1>2, <3>2
      <4>. QED  BY <3>1, <4>1
    <3>3. CASE ~ (kk + 1 <= Len(tt))
      BY <3>1, <3>3
    <3>. QED  BY <3>2, <3>3
  <2>. HIDE DEF T
  <2>2. T \subseteq Nat
    BY DEF T
  <2>. QED  BY <1>1, <2>1, <2>2, SetInduction
<1>4. Upto(Len(tt)) = tt /\ Len(tt) \in Nat
  OBVIOUS
<1>. HIDE DEF T, Upto
<1>5. Len(tt) \in T
  BY <1>3, <1>4
<1>6. FlattenSeq(ss \o Upto(Len(tt))) = FlattenSeq(ss) \o FlattenSeq(Upto(Len(tt)))
  BY <1>4, <1>5 DEF T
<1>. QED  BY <1>4, <1>6

\* A separator before every part but the first: part after part.
LEMMA SeparatedAppend ==
  ASSUME NEW S, NEW F \in Seq(S), NEW p \in Seq(S), Separator \in S
  PROVE  /\ Separated(FALSE, F \o p) = Separated(FALSE, F) \o Separated(F # << >>, p)
         /\ \A after \in BOOLEAN : Separated(after, p) \in Seq(S)
<1>. DEFINE Pieces(after, parts) == [i \in 1 .. Len(parts) |->
                IF i = 1 /\ ~ after THEN <<parts[i]>> ELSE <<Separator, parts[i]>>]
<1>1. ASSUME NEW after \in BOOLEAN, NEW q \in Seq(S) PROVE Pieces(after, q) \in Seq(Seq(S))
  <2>1. Len(q) \in Nat /\ \A i \in 1 .. Len(q) : q[i] \in S
    OBVIOUS
  <2>2. \A i \in 1 .. Len(q) : Pieces(after, q)[i] \in Seq(S)
    BY <2>1
  <2>. QED  BY <2>1, <2>2
<1>2. Pieces(FALSE, F \o p) = Pieces(FALSE, F) \o Pieces(F # << >>, p)
  <2>1. Len(F) \in Nat /\ Len(p) \in Nat /\ Len(F \o p) = Len(F) + Len(p)
    OBVIOUS
  <2>2. \A i \in 1 .. Len(F) : (F \o p)[i] = F[i]
    OBVIOUS
  <2>3. \A i \in 1 .. Len(p) : (F \o p)[i + Len(F)] = p[i]
    OBVIOUS
  <2>4. (F # << >>) = (Len(F) # 0)
    OBVIOUS
  <2>. DEFINE L == Pieces(FALSE, F)
              R == Pieces(F # << >>, p)
              W == Pieces(FALSE, F \o p)
  <2>5. L \in Seq(Seq(S)) /\ R \in Seq(Seq(S)) /\ W \in Seq(Seq(S))
    <3>1. F \o p \in Seq(S)
      OBVIOUS
    <3>. QED  BY <1>1, <3>1
  <2>6. Len(L) = Len(F) /\ Len(R) = Len(p) /\ Len(W) = Len(F) + Len(p)
    BY <2>1
  <2>7. ASSUME NEW i \in 1 .. Len(F) PROVE W[i] = L[i]
    BY <2>1, <2>2, <2>7
  <2>8. ASSUME NEW i \in 1 .. Len(p) PROVE W[i + Len(F)] = R[i]
    <3>1. i + Len(F) \in 1 .. Len(F \o p)
      BY <2>1
    <3>2. W[i + Len(F)] = IF i + Len(F) = 1 THEN <<p[i]>> ELSE <<Separator, p[i]>>
      BY <2>3, <3>1
    <3>3. (i + Len(F) = 1) = (i = 1 /\ Len(F) = 0)
      BY <2>1
    <3>. QED  BY <2>4, <3>2, <3>3
  <2>. HIDE DEF L, R, W, Pieces
  <2>9. W = L \o R
    <3>1. \A i \in 1 .. Len(L) : W[i] = L[i]
      BY <2>6, <2>7
    <3>2. \A i \in 1 .. Len(R) : W[i + Len(L)] = R[i]
      BY <2>6, <2>8
    <3>3. Len(W) = Len(L) + Len(R)
      BY <2>6
    <3>4. \A l, r, w \in Seq(Seq(S)) :
             /\ Len(w) = Len(l) + Len(r)
             /\ \A i \in 1 .. Len(l) : w[i] = l[i]
             /\ \A i \in 1 .. Len(r) : w[i + Len(l)] = r[i]
             => w = l \o r
      BY Joined, Zenon
    <3>. QED  BY <2>5, <3>1, <3>2, <3>3, <3>4
  <2>. QED  BY <2>9 DEF L, R, W
<1>3. \A after : \A parts : Separated(after, parts) = FlattenSeq(Pieces(after, parts))
  BY DEF Separated
<1>4. F \o p \in Seq(S) /\ (F # << >>) \in BOOLEAN
  OBVIOUS
<1>. HIDE DEF Pieces
<1>5. FlattenSeq(Pieces(FALSE, F \o p)) = FlattenSeq(Pieces(FALSE, F)) \o FlattenSeq(Pieces(F # << >>, p))
  BY <1>1, <1>2, <1>4, FlattenConcat
<1>6. \A after \in BOOLEAN : FlattenSeq(Pieces(after, p)) \in Seq(S)
  BY <1>1, FlattenTyped
<1>. QED  BY <1>3, <1>5, <1>6

-----------------------------------------------------------------------------
(* What is true of a writer between two steps *)

\* What the staging can hold, and what the rows of a batch become there.
PartSet == [part : {"open", "close", "header", "sep", "half", "row"}, layer : Nat,
            row : RowKinds \cup {"none"}]
Written == [part : {"row"}, layer : Layers, row : RowKinds]

Flat == FlattenSeq(acknowledged)

\* The rows as the format lays them out.
Body(parts) == IF format = "geojson" THEN Separated(FALSE, parts) ELSE parts

Opening == IF format = "csv" THEN << >> ELSE <<Open>>

WriterTyped ==
  /\ format \in Formats /\ xy \in BOOLEAN /\ started \in BOOLEAN
  /\ shape_type \subseteq {"point", "line"}
  /\ writer \in {"none", "open", "closed"} /\ layers \in Nat
  /\ call \in {"idle", "write", "finish"} /\ failed \in BOOLEAN
  /\ acknowledged \in Seq(Seq(Written))
  /\ writer = "none" => /\ acknowledged = << >> /\ layer_rows = << >> /\ call = "idle"
                        /\ ~ failed /\ destination = {}
  /\ writer = "open" => layer_rows \in [Layers -> Nat] /\ input_totals \in [Layers -> Int]

\* The rows leased are those of the write in progress, the rows committed
\* those of the batches acknowledged.
Charged ==
  /\ call = "write" => /\ batch.layer \in Layers /\ batch.rows \in Seq(RowKinds)
                       /\ reserved = Len(batch.rows) /\ ~ failed
  /\ call # "write" => reserved = 0
  /\ call = "finish" => ~ failed /\ TotalsMatch
  /\ committed = Len(Flat)
  /\ \A layer \in DOMAIN layer_rows : layer_rows[layer] = RowsOf(layer)

\* A writer no failure has spoiled: the staging is the document of the batches
\* acknowledged but for its end, or nothing yet where the backend keeps them.
Staging ==
  writer = "open" /\ ~ failed =>
    /\ format \in {"xls", "dxf"} => staged = << >> /\ buffer = acknowledged
    /\ format \notin {"xls", "dxf"} =>
         staged = Opening \o (HeaderOf(acknowledged) \o Body(Flat))
    /\ format = "csv" => started = (acknowledged # << >>)
    /\ format = "geojson" => started = (Flat # << >>)
    /\ format # "xls" => \A i \in 1 .. Len(Flat) : Fits(Flat[i].row)
    /\ format = "shp" =>
         /\ {Flat[i].row : i \in 1 .. Len(Flat)} \subseteq shape_type \cup {"null"}
         /\ ~ {"point", "line"} \subseteq shape_type
    /\ layers = 1 \/ format \in MultiLayer

Published ==
  /\ destination # {} => writer = "closed"
  /\ \A document \in destination :
       document = DocumentOf(acknowledged) /\ Readable(document)
  /\ destination # {} => \A layer \in Layers : input_totals[layer] \in {NoTotal, RowsOf(layer)}

WriterInv == WriterTyped /\ Charged /\ Staging /\ Published

-----------------------------------------------------------------------------
(* The document of a few batches *)

LEMMA RowPartsTyped ==
  ASSUME NEW layer, NEW content \in Seq(RowKinds)
  PROVE  /\ RowParts(layer, content) \in Seq([part : {"row"}, layer : {layer}, row : RowKinds])
         /\ Len(RowParts(layer, content)) = Len(content)
         /\ \A i \in 1 .. Len(content) : RowParts(layer, content)[i].row = content[i]
<1>1. Len(content) \in Nat /\ \A i \in 1 .. Len(content) : content[i] \in RowKinds
  OBVIOUS
<1>2. \A i \in 1 .. Len(content) :
        Row(layer, content[i]) \in [part : {"row"}, layer : {layer}, row : RowKinds]
        /\ Row(layer, content[i]).row = content[i]
  BY <1>1 DEF Row
<1>. QED  BY <1>1, <1>2 DEF RowParts

\* Rows of a layer are counted place by place.
CountOf(parts, layer) == Cardinality({i \in 1 .. Len(parts) : parts[i].layer = layer})

LEMMA CountAppended ==
  ASSUME NEW S, NEW F \in Seq(S), NEW p \in Seq(S), NEW l
  PROVE  /\ CountOf(F, l) \in Nat
         /\ (\A i \in 1 .. Len(p) : p[i].layer = l) => CountOf(F \o p, l) = CountOf(F, l) + Len(p)
         /\ (\A i \in 1 .. Len(p) : p[i].layer # l) => CountOf(F \o p, l) = CountOf(F, l)
<1>. DEFINE A == {i \in 1 .. Len(F) : F[i].layer = l}
            B == {i \in 1 .. Len(F \o p) : (F \o p)[i].layer = l}
            C == Len(F) + 1 .. Len(F) + Len(p)
<1>1. Len(F) \in Nat /\ Len(p) \in Nat /\ Len(F \o p) = Len(F) + Len(p)
  OBVIOUS
<1>2. \A i \in 1 .. Len(F) : (F \o p)[i] = F[i]
  OBVIOUS
<1>3. ASSUME NEW i \in C PROVE i - Len(F) \in 1 .. Len(p) /\ (F \o p)[i] = p[i - Len(F)]
  <2>1. i - Len(F) \in 1 .. Len(p) /\ i \in 1 .. Len(F) + Len(p) /\ i > Len(F)
    BY <1>1
  <2>2. (F \o p)[i] = p[i - Len(F)]
    BY <2>1, <1>1
  <2>. QED  BY <2>1, <2>2
<1>4. IsFiniteSet(A) /\ Cardinality(A) \in Nat
  <2>1. IsFiniteSet(1 .. Len(F)) /\ A \subseteq 1 .. Len(F)
    BY <1>1, FS_Interval
  <2>2. IsFiniteSet(A)
    BY <2>1, FS_Subset
  <2>. QED  BY <2>2, FS_CardinalityType
<1>5. ASSUME \A i \in 1 .. Len(p) : p[i].layer = l PROVE Cardinality(B) = Cardinality(A) + Len(p)
  <2>1. B = A \cup C
    <3>1. ASSUME NEW i PROVE i \in B <=> i \in A \cup C
      <4>1. i \in 1 .. Len(F) + Len(p) <=> i \in 1 .. Len(F) \/ i \in C
        BY <1>1
      <4>. QED  BY <1>1, <1>2, <1>3, <1>5, <4>1
    <3>. HIDE DEF A, B, C
    <3>. QED  BY <3>1
  <2>2. IsFiniteSet(C) /\ Cardinality(C) = Len(p)
    <3>1. Len(F) + 1 \in Int /\ Len(F) + Len(p) \in Int
      BY <1>1
    <3>2. IsFiniteSet(C)
          /\ Cardinality(C) = IF Len(F) + 1 > Len(F) + Len(p) THEN 0
                              ELSE (Len(F) + Len(p)) - (Len(F) + 1) + 1
      BY <3>1, FS_Interval
    <3>. HIDE DEF C
    <3>. QED  BY <1>1, <3>2
  <2>3. A \cap C = {}
    BY <1>1
  <2>. HIDE DEF A, B, C
  <2>4. Cardinality(A \cup C) = Cardinality(A) + Cardinality(C)
    <3>1. Cardinality(A \cup C) = Cardinality(A) + Cardinality(C) - Cardinality(A \cap C)
      BY <1>4, <2>2, FS_Union
    <3>2. Cardinality(A \cap C) = 0
      BY <2>3, FS_EmptySet
    <3>. QED  BY <1>1, <1>4, <2>2, <3>1, <3>2
  <2>. QED  BY <2>1, <2>2, <2>4
<1>6. ASSUME \A i \in 1 .. Len(p) : p[i].layer # l PROVE Cardinality(B) = Cardinality(A)
  <2>1. B = A
    <3>1. ASSUME NEW i PROVE i \in B <=> i \in A
      <4>1. i \in 1 .. Len(F) + Len(p) <=> i \in 1 .. Len(F) \/ i \in C
        BY <1>1
      <4>. QED  BY <1>1, <1>2, <1>3, <1>6, <4>1
    <3>. HIDE DEF A, B
    <3>. QED  BY <3>1
  <2>. QED  BY <2>1
<1>7. CountOf(F, l) = Cardinality(A) /\ CountOf(F \o p, l) = Cardinality(B)
  BY DEF CountOf
<1>. HIDE DEF A, B
<1>. QED  BY <1>4, <1>5, <1>6, <1>7

\* A document holds what frames it and its rows, nothing else.
LEMMA DocumentHolds ==
  ASSUME NEW S, NEW batches \in Seq(Seq(S))
  PROVE  LET flat == FlattenSeq(batches)
             doc  == DocumentOf(batches)
         IN  /\ Len(doc) \in Nat
             /\ \A i \in 1 .. Len(doc) :
                  \/ doc[i].row = "none" /\ doc[i].layer = 0
                  \/ \E j \in 1 .. Len(flat) : doc[i] = flat[j]
<1>. DEFINE flat == FlattenSeq(batches)
            doc  == DocumentOf(batches)
            G    == {Open, Footer, Header, Separator} \cup {flat[j] : j \in 1 .. Len(flat)}
            body == IF format = "geojson" THEN Separated(FALSE, flat) ELSE flat
<1>1. flat \in Seq(S)
  BY FlattenTyped
<1>2. flat \in Seq(G)
  <2>. HIDE DEF flat
  <2>1. Len(flat) \in Nat /\ flat = [j \in 1 .. Len(flat) |-> flat[j]]
    BY <1>1
  <2>2. \A j \in 1 .. Len(flat) : flat[j] \in G
    OBVIOUS
  <2>. HIDE DEF G
  <2>. QED  BY <2>1, <2>2, IsASeq
<1>3. Open \in G /\ Footer \in G /\ Header \in G /\ Separator \in G
  OBVIOUS
<1>. HIDE DEF G, flat
<1>4. body \in Seq(G)
  <2>1. Separated(FALSE, flat) \in Seq(G)
    BY <1>2, <1>3, SeparatedAppend
  <2>. QED  BY <1>2, <2>1
<1>. HIDE DEF body
<1>5. HeaderOf(batches) \in Seq(G)
  BY <1>3 DEF HeaderOf
<1>6. doc = Framed(HeaderOf(batches) \o body)
  BY DEF DocumentOf, body, flat
<1>7. HeaderOf(batches) \o body \in Seq(G)
  BY <1>4, <1>5
<1>8. doc \in Seq(G)
  <2>. DEFINE inner == HeaderOf(batches) \o body
  <2>1. inner \in Seq(G) /\ doc = Framed(inner)
    BY <1>6, <1>7
  <2>. HIDE DEF inner, doc
  <2>2. <<Open>> \o inner \o <<Footer>> \in Seq(G)
    <3>1. <<Open>> \in Seq(G) /\ <<Footer>> \in Seq(G)
      BY <1>3
    <3>2. <<Open>> \o inner \in Seq(G)
      BY <2>1, <3>1
    <3>. QED  BY <3>1, <3>2
  <2>. QED  BY <2>1, <2>2 DEF Framed
<1>9. ASSUME NEW g \in G
      PROVE  \/ g.row = "none" /\ g.layer = 0
             \/ \E j \in 1 .. Len(flat) : g = flat[j]
  BY DEF G, Open, Footer, Header, Separator
<1>10. Len(doc) \in Nat /\ \A i \in 1 .. Len(doc) : doc[i] \in G
  <2>. HIDE DEF doc
  <2>. QED  BY <1>8
<1>. QED  BY <1>9, <1>10 DEF flat

-----------------------------------------------------------------------------
(* finish: the staging becomes the document of the batches acknowledged *)

LEMMA FlatTyped ==
  ASSUME WriterTyped
  PROVE  /\ Flat \in Seq(Written) /\ Len(Flat) \in Nat
         /\ \A i \in 1 .. Len(Flat) : /\ Flat[i].row \in RowKinds
                                      /\ Flat[i].layer \in Layers
<1>1. acknowledged \in Seq(Seq(Written))
  BY DEF WriterTyped
<1>2. Flat \in Seq(Written)
  BY <1>1, FlattenTyped DEF Flat
<1>3. Len(Flat) \in Nat /\ \A i \in 1 .. Len(Flat) : Flat[i] \in Written
  BY <1>2
<1>. QED  BY <1>2, <1>3 DEF Written

LEMMA BackendFinishes ==
  ASSUME WriterInv, writer = "open", ~ failed, FinishBackend
  PROVE  /\ staged' = DocumentOf(acknowledged)
         /\ \A i \in 1 .. Len(Flat) : Fits(Flat[i].row)
<1>. DEFINE G == PartSet \cup {Flat[i] : i \in 1 .. Len(Flat)}
            header == HeaderOf(acknowledged)
            body == Body(Flat)
<1>1. /\ Open \in G /\ Footer \in G /\ Header \in G /\ Separator \in G
      /\ Flat \in Seq(G)
  <2>1. Open \in PartSet /\ Footer \in PartSet /\ Header \in PartSet /\ Separator \in PartSet
    BY DEF PartSet, Open, Footer, Header, Separator
  <2>2. Flat \in Seq(Written) /\ Len(Flat) \in Nat
    BY FlatTyped DEF WriterInv
  <2>3. Flat = [i \in 1 .. Len(Flat) |-> Flat[i]] /\ \A i \in 1 .. Len(Flat) : Flat[i] \in G
    BY <2>2
  <2>. HIDE DEF G
  <2>4. Flat \in Seq(G)
    BY <2>2, <2>3, IsASeq
  <2>. QED  BY <2>1, <2>4 DEF G
<1>. HIDE DEF G
<1>2. header \in Seq(G) /\ body \in Seq(G) /\ <<Open>> \in Seq(G) /\ <<Footer>> \in Seq(G)
  <2>1. Separated(FALSE, Flat) \in Seq(G)
    BY <1>1, SeparatedAppend
  <2>2. << >> \in Seq(G) /\ <<Header>> \in Seq(G) /\ <<Open>> \in Seq(G) /\ <<Footer>> \in Seq(G)
    BY <1>1
  <2>3. header = << >> \/ header = <<Header>>
    BY DEF HeaderOf
  <2>4. body = Flat \/ body = Separated(FALSE, Flat)
    BY DEF Body
  <2>. HIDE DEF header, body
  <2>. QED  BY <1>1, <2>1, <2>2, <2>3, <2>4
<1>3. DocumentOf(acknowledged) = Framed(header \o body)
  BY DEF DocumentOf, Flat, Body
<1>4. /\ format \in {"xls", "dxf"} => staged = << >> /\ buffer = acknowledged
      /\ format \notin {"xls", "dxf"} => staged = Opening \o (header \o body)
      /\ format # "xls" => \A i \in 1 .. Len(Flat) : Fits(Flat[i].row)
  BY DEF WriterInv, Staging
<1>. DEFINE inner == header \o body
<1>5. inner \in Seq(G) /\ <<Open>> \o inner \in Seq(G) /\ << >> \o inner = inner
  BY <1>2
<1>6. CASE format \in {"ipc", "geoparquet", "geojson", "kml", "gpkg", "filegdb", "shp"}
  <2>1. staged' = staged \o <<Footer>>
    BY <1>6 DEF FinishBackend, FinishIpc, FinishGeoParquet, FinishCsv, FinishGeoJson, FinishKml,
              FinishGpkg, FinishFileGdb, FinishShp, FinishXls, FinishDxf, Put
  <2>2. staged = <<Open>> \o inner
    BY <1>4, <1>6 DEF Opening
  <2>3. Framed(inner) = <<Open>> \o inner \o <<Footer>>
    BY <1>6 DEF Framed, Delimited
  <2>. HIDE DEF inner
  <2>. QED  BY <1>3, <1>4, <1>6, <2>1, <2>2, <2>3 DEF inner
<1>7. CASE format = "csv"
  <2>1. staged' = staged
    BY <1>7 DEF FinishBackend, FinishIpc, FinishGeoParquet, FinishCsv, FinishGeoJson, FinishKml,
              FinishGpkg, FinishFileGdb, FinishShp, FinishXls, FinishDxf
  <2>2. staged = << >> \o inner
    BY <1>4, <1>7 DEF Opening
  <2>3. Framed(inner) = inner
    BY <1>7 DEF Framed, Delimited
  <2>. HIDE DEF inner
  <2>. QED  BY <1>3, <1>4, <1>5, <1>7, <2>1, <2>2, <2>3 DEF inner
<1>8. CASE format = "dxf"
  <2>1. staged' = << >> \o (<<Open>> \o Flat \o <<Footer>>)
    <3>1. staged' = staged \o (<<Open>> \o FlattenSeq(buffer) \o <<Footer>>)
      BY <1>8 DEF FinishBackend, FinishIpc, FinishGeoParquet, FinishCsv, FinishGeoJson, FinishKml,
                FinishGpkg, FinishFileGdb, FinishShp, FinishXls, FinishDxf, Put
    <3>. QED  BY <1>4, <1>8, <3>1 DEF Flat
  <2>2. inner = Flat
    <3>1. header = << >> /\ body = Flat
      BY <1>8 DEF HeaderOf, Body
    <3>. QED  BY <1>1, <3>1
  <2>3. Framed(inner) = <<Open>> \o inner \o <<Footer>>
    BY <1>8 DEF Framed, Delimited
  <2>. HIDE DEF inner
  <2>4. <<Open>> \o inner \o <<Footer>> \in Seq(G)
    BY <1>2, <1>5
  <2>5. staged' = <<Open>> \o inner \o <<Footer>>
    BY <2>1, <2>2, <2>4
  <2>. QED  BY <1>3, <1>4, <1>8, <2>3, <2>5 DEF inner
<1>9. CASE format = "xls"
  <2>1. /\ staged' = << >> \o (<<Open>> \o header \o Flat \o <<Footer>>)
        /\ \A i \in 1 .. Len(Flat) : Fits(Flat[i].row)
    <3>1. FinishXls
      BY <1>9 DEF FinishBackend, FinishIpc, FinishGeoParquet, FinishCsv, FinishGeoJson, FinishKml,
                FinishGpkg, FinishFileGdb, FinishShp, FinishXls, FinishDxf
    <3>2. header = IF acknowledged = << >> THEN << >> ELSE <<Header>>
      BY <1>9 DEF HeaderOf
    <3>. HIDE DEF header
    <3>. QED  BY <1>4, <1>9, <3>1, <3>2 DEF Flat, FinishXls, Put
  <2>2. body = Flat
    BY <1>9 DEF Body
  <2>3. Framed(inner) = <<Open>> \o inner \o <<Footer>>
    BY <1>9 DEF Framed, Delimited
  <2>4. (<<Open>> \o header) \o Flat = <<Open>> \o (header \o Flat)
    <3>1. header \in Seq(G) /\ <<Open>> \in Seq(G) /\ Flat \in Seq(G)
      BY <1>1, <1>2
    <3>. HIDE DEF header
    <3>. QED  BY <3>1, ConcatAssociative
  <2>5. staged' = << >> \o (<<Open>> \o inner \o <<Footer>>)
    <3>. HIDE DEF header, body
    <3>. QED  BY <2>1, <2>2, <2>4
  <2>. HIDE DEF inner
  <2>6. <<Open>> \o inner \o <<Footer>> \in Seq(G)
    BY <1>2, <1>5
  <2>7. staged' = <<Open>> \o inner \o <<Footer>>
    BY <2>5, <2>6
  <2>. QED  BY <1>3, <2>1, <2>3, <2>7 DEF inner
<1>. QED
  <2>1. format \in Formats
    BY DEF WriterInv, WriterTyped
  <2>. QED  BY <1>6, <1>7, <1>8, <1>9, <2>1 DEF Formats

\* The document of a writer no failure has spoiled is one its format reads.
LEMMA DocumentReadable ==
  ASSUME WriterInv, writer = "open", ~ failed, \A i \in 1 .. Len(Flat) : Fits(Flat[i].row)
  PROVE  Readable(DocumentOf(acknowledged))
<1>. DEFINE doc == DocumentOf(acknowledged)
            kinds == {doc[i].row : i \in 1 .. Len(doc)} \ {"none"}
<1>1. \A i \in 1 .. Len(doc) : \/ doc[i].row = "none" /\ doc[i].layer = 0
                               \/ \E j \in 1 .. Len(Flat) : doc[i] = Flat[j]
  <2>1. acknowledged \in Seq(Seq(Written))
    BY DEF WriterInv, WriterTyped
  <2>. HIDE DEF doc
  <2>. QED  BY <2>1, DocumentHolds DEF doc, Flat
<1>. HIDE DEF doc
<1>2. \A kind \in kinds : \E j \in 1 .. Len(Flat) : kind = Flat[j].row
  BY <1>1
<1>3. \A j \in 1 .. Len(Flat) : Flat[j].layer \in Layers /\ Flat[j].row \in RowKinds
  BY FlatTyped DEF WriterInv
<1>4. format = "shp" => ~ {"point", "line"} \subseteq kinds
  <2>1. ASSUME format = "shp", {"point", "line"} \subseteq kinds PROVE FALSE
    <3>1. {Flat[i].row : i \in 1 .. Len(Flat)} \subseteq shape_type \cup {"null"}
      BY <2>1 DEF WriterInv, Staging
    <3>2. "point" \in shape_type /\ "line" \in shape_type
      BY <1>2, <2>1, <3>1
    <3>. QED  BY <2>1, <3>2 DEF WriterInv, Staging
  <2>. QED  BY <2>1
<1>5. format \notin MultiLayer => {doc[i].layer : i \in 1 .. Len(doc)} \subseteq {0, 1}
  <2>1. ASSUME format \notin MultiLayer PROVE layers = 1
    BY <2>1 DEF WriterInv, Staging
  <2>2. ASSUME format \notin MultiLayer, NEW i \in 1 .. Len(doc) PROVE doc[i].layer \in {0, 1}
    BY <1>1, <1>3, <2>1, <2>2 DEF Layers
  <2>. QED  BY <2>2
<1>. QED  BY <1>2, <1>4, <1>5 DEF Readable, doc

-----------------------------------------------------------------------------
(* write: the batch is laid after those acknowledged before it *)

\* The parts of the batch in progress.
BatchParts == RowParts(batch.layer, batch.rows)

LEMMA BatchTyped ==
  ASSUME batch.layer \in Layers, batch.rows \in Seq(RowKinds), layers \in Nat
  PROVE  /\ BatchParts \in Seq(Written) /\ BatchParts \in Seq(PartSet)
         /\ Len(BatchParts) = Len(batch.rows) /\ Len(batch.rows) \in Nat
         /\ \A i \in 1 .. Len(BatchParts) : BatchParts[i].layer = batch.layer
         /\ \A i \in 1 .. Len(batch.rows) : BatchParts[i].row = batch.rows[i]
<1>. DEFINE L == [part : {"row"}, layer : {batch.layer}, row : RowKinds]
<1>1. /\ BatchParts \in Seq(L) /\ Len(BatchParts) = Len(batch.rows)
      /\ \A i \in 1 .. Len(batch.rows) : BatchParts[i].row = batch.rows[i]
  BY RowPartsTyped DEF BatchParts
<1>2. L \subseteq Written /\ L \subseteq PartSet
  BY DEF Written, PartSet, Layers
<1>. HIDE DEF L
<1>3. \A i \in 1 .. Len(BatchParts) : BatchParts[i] \in L
  BY <1>1
<1>4. \A i \in 1 .. Len(BatchParts) : BatchParts[i].layer = batch.layer
  BY <1>3 DEF L
<1>5. BatchParts \in Seq(Written) /\ BatchParts \in Seq(PartSet)
  BY <1>1, <1>2, SeqMonotonic
<1>. QED  BY <1>1, <1>4, <1>5

LEMMA FlatParts ==
  ASSUME WriterTyped
  PROVE  Flat \in Seq(PartSet)
<1>1. Flat \in Seq(Written)
  BY FlatTyped
<1>2. Written \subseteq PartSet
  BY DEF WriterTyped, Written, PartSet, Layers
<1>. QED  BY <1>1, <1>2, SeqMonotonic

\* Acknowledging the batch lays its parts after the others.
LEMMA FlatGrows ==
  ASSUME WriterTyped, batch.layer \in Layers, batch.rows \in Seq(RowKinds)
  PROVE  /\ Append(acknowledged, BatchParts) \in Seq(Seq(Written))
         /\ Append(acknowledged, BatchParts) # << >>
         /\ FlattenSeq(Append(acknowledged, BatchParts)) = Flat \o BatchParts
<1>1. acknowledged \in Seq(Seq(Written)) /\ BatchParts \in Seq(Written)
  BY BatchTyped DEF WriterTyped
<1>2. FlattenSeq(Append(acknowledged, BatchParts)) = Flat \o BatchParts
  BY <1>1, FlattenAppend DEF Flat
<1>. QED  BY <1>1, <1>2

\* A batch the backend took whole holds nothing its format cannot.
LEMMA WrittenFits ==
  ASSUME NEW content \in Seq(RowKinds), NEW layer,
         WriteBackend(Len(content), layer, content), format # "xls"
  PROVE  \A i \in 1 .. Len(content) : Fits(content[i])
<1>1. CASE format = "ipc"
  BY <1>1 DEF Fits
<1>2. CASE format # "ipc"
  <2>1. \/ Encodable(content)
        \/ Reachable(Len(content), content)
        \/ Len(content) = 0
    BY <1>2 DEF WriteBackend, WriteIpc, WriteGeoParquet, WriteCsv, WriteGeoJson, WriteKml, WriteGpkg,
              WriteFileGdb, WriteShp, WriteXls, WriteDxf, WriteInserted, WritePrepared, Ok
  <2>. QED  BY <2>1 DEF Encodable, Reachable
<1>. QED  BY <1>1, <1>2

LEMMA WholeBatch ==
  ASSUME NEW content \in Seq(RowKinds)
  PROVE  /\ SubSeq(content, 1, Len(content)) = content
         /\ Torn(Len(content), content) = << >>
  BY DEF Torn, Ok

LEMMA BackendWrites ==
  ASSUME WriterInv, writer = "open", call = "write",
         WriteBackend(Len(batch.rows), batch.layer, batch.rows)
  PROVE  LET after == Append(acknowledged, BatchParts)
         IN  /\ format' = format /\ xy' = xy
             /\ format \in {"xls", "dxf"} => staged' = << >> /\ buffer' = after
             /\ format \notin {"xls", "dxf"} =>
                  staged' = Opening \o (HeaderOf(after) \o Body(Flat \o BatchParts))
             /\ format = "csv" => started' = TRUE
             /\ format = "geojson" => started' = (Flat \o BatchParts # << >>)
             /\ started' \in BOOLEAN
<1>. DEFINE after == Append(acknowledged, BatchParts)
            content == batch.rows
            n == Len(batch.rows)
<1>1. /\ batch.layer \in Layers /\ content \in Seq(RowKinds) /\ ~ failed
      /\ WriterTyped /\ format \in Formats /\ layers \in Nat /\ started \in BOOLEAN
  BY DEF WriterInv, WriterTyped, Charged
<1>2. /\ BatchParts \in Seq(PartSet) /\ Flat \in Seq(PartSet) /\ Len(BatchParts) = n
      /\ n \in Nat /\ after # << >>
      /\ <<Open>> \in Seq(PartSet) /\ <<Header>> \in Seq(PartSet) /\ << >> \in Seq(PartSet)
      /\ Separator \in PartSet
  <2>1. Open \in PartSet /\ Header \in PartSet /\ Separator \in PartSet
    BY DEF PartSet, Open, Header, Separator
  <2>. QED  BY <1>1, <2>1, BatchTyped, FlatParts, FlatGrows
<1>3. /\ format \in {"xls", "dxf"} => staged = << >> /\ buffer = acknowledged
      /\ format \notin {"xls", "dxf"} => staged = Opening \o (HeaderOf(acknowledged) \o Body(Flat))
      /\ format = "csv" => started = (acknowledged # << >>)
      /\ format = "geojson" => started = (Flat # << >>)
  BY <1>1 DEF WriterInv, Staging
<1>4. /\ SubSeq(content, 1, n) = content /\ Torn(n, content) = << >> /\ Ok(n, content)
      /\ RowParts(batch.layer, content) = BatchParts
      /\ BatchParts \o << >> = BatchParts /\ << >> \o BatchParts = BatchParts
  BY <1>1, <1>2, WholeBatch DEF Ok, BatchParts
<1>5. format' = format /\ xy' = xy
  BY DEF WriteBackend, WriteIpc, WriteGeoParquet, WriteCsv, WriteGeoJson, WriteKml, WriteGpkg,
         WriteFileGdb, WriteShp, WriteXls, WriteDxf, WriteInserted, WriteWhole, Keep, backendVars
<1>6. CASE format \in {"ipc", "geoparquet", "kml", "gpkg", "filegdb", "shp"}
  <2>1. staged' = staged \o BatchParts /\ started' = started
    <3>1. CASE format \in {"ipc", "geoparquet"}
      BY <1>4, <3>1 DEF WriteBackend, WriteIpc, WriteGeoParquet, WriteCsv, WriteGeoJson, WriteKml,
           WriteGpkg, WriteFileGdb, WriteShp, WriteXls, WriteDxf, WriteWhole, Put
    <3>2. CASE format \in {"gpkg", "filegdb"}
      BY <1>4, <3>2 DEF WriteBackend, WriteIpc, WriteGeoParquet, WriteCsv, WriteGeoJson, WriteKml,
           WriteGpkg, WriteFileGdb, WriteShp, WriteXls, WriteDxf, WriteInserted, Put
    <3>3. CASE format \in {"kml", "shp"}
      <4>1. WritePrepared(n, batch.layer, content) /\ started' = started
        BY <3>3 DEF WriteBackend, WriteIpc, WriteGeoParquet, WriteCsv, WriteGeoJson, WriteKml,
             WriteGpkg, WriteFileGdb, WriteShp, WriteXls, WriteDxf
      <4>2. CASE Encodable(content)
        BY <1>4, <4>1, <4>2 DEF WritePrepared, Put
      <4>3. CASE ~ Encodable(content)
        <5>1. n = 0 /\ staged' = staged
          BY <4>1, <4>3 DEF WritePrepared
        <5>2. \A i \in 1 .. Len(content) : Fits(content[i])
          BY <5>1
        <5>3. Shapes(content) = {}
          BY <5>1 DEF Shapes
        <5>. QED  BY <4>3, <5>2, <5>3 DEF Encodable, OneShape
      <4>. QED  BY <4>1, <4>2, <4>3
    <3>. QED  BY <1>6, <3>1, <3>2, <3>3
  <2>2. Opening = <<Open>> /\ HeaderOf(acknowledged) = << >> /\ HeaderOf(after) = << >>
        /\ \A parts : Body(parts) = parts
    BY <1>6 DEF Opening, HeaderOf, Body
  <2>3. staged = <<Open>> \o (<< >> \o Flat)
    BY <1>3, <1>6, <2>2
  <2>4. << >> \o Flat = Flat /\ << >> \o (Flat \o BatchParts) = Flat \o BatchParts
    BY <1>2
  <2>5. (<<Open>> \o Flat) \o BatchParts = <<Open>> \o (Flat \o BatchParts)
    BY <1>2, ConcatAssociative
  <2>. HIDE DEF after, content, n
  <2>6. staged' = <<Open>> \o (<< >> \o (Flat \o BatchParts))
    BY <2>1, <2>3, <2>4, <2>5
  <2>. QED  BY <1>1, <1>5, <1>6, <2>1, <2>2, <2>6 DEF after
<1>7. CASE format = "csv"
  <2>1. /\ staged' = staged \o ((IF started THEN << >> ELSE <<Header>>) \o BatchParts \o << >>)
        /\ started' = TRUE
    BY <1>4, <1>7 DEF WriteBackend, WriteIpc, WriteGeoParquet, WriteCsv, WriteGeoJson, WriteKml,
         WriteGpkg, WriteFileGdb, WriteShp, WriteXls, WriteDxf, Put
  <2>2. Opening = << >> /\ HeaderOf(after) = <<Header>> /\ \A parts : Body(parts) = parts
    BY <1>2, <1>7 DEF Opening, HeaderOf, Body
  <2>3. <<Header>> \o BatchParts \in Seq(PartSet) /\ (<<Header>> \o BatchParts) \o << >> = <<Header>> \o BatchParts
    BY <1>2
  <2>4. CASE acknowledged = << >>
    <3>1. Flat = << >> /\ HeaderOf(acknowledged) = << >> /\ ~ started
      BY <1>3, <1>7, <2>4, FlattenEmpty DEF Flat, HeaderOf
    <3>2. staged = << >>
      BY <1>3, <1>7, <2>2, <3>1
    <3>3. staged' = << >> \o (<<Header>> \o BatchParts)
      BY <2>1, <2>3, <3>1, <3>2
    <3>4. Flat \o BatchParts = BatchParts
      BY <1>4, <3>1
    <3>. HIDE DEF after
    <3>5. staged' = Opening \o (HeaderOf(after) \o Body(Flat \o BatchParts))
      BY <2>2, <3>3, <3>4
    <3>. QED  BY <1>5, <1>7, <2>1, <3>5 DEF after
  <2>5. CASE acknowledged # << >>
    <3>1. HeaderOf(acknowledged) = <<Header>> /\ started
      BY <1>3, <1>7, <2>5 DEF HeaderOf
    <3>2. staged = << >> \o (<<Header>> \o Flat)
      BY <1>3, <1>7, <2>2, <3>1
    <3>3. staged' = staged \o BatchParts
      <4>1. (<< >> \o BatchParts) \o << >> = BatchParts
        BY <1>4
      <4>. QED  BY <2>1, <3>1, <4>1
    <3>4. << >> \o (<<Header>> \o Flat) = <<Header>> \o Flat
          /\ << >> \o (<<Header>> \o (Flat \o BatchParts)) = <<Header>> \o (Flat \o BatchParts)
      BY <1>2
    <3>5. (<<Header>> \o Flat) \o BatchParts = <<Header>> \o (Flat \o BatchParts)
      BY <1>2, ConcatAssociative
    <3>. HIDE DEF after
    <3>6. staged' = Opening \o (HeaderOf(after) \o Body(Flat \o BatchParts))
      BY <2>2, <3>2, <3>3, <3>4, <3>5
    <3>. QED  BY <1>5, <1>7, <2>1, <3>6 DEF after
  <2>. QED  BY <2>4, <2>5
<1>8. CASE format = "geojson"
  <2>1. /\ staged' = staged \o Separated(started, BatchParts)
        /\ started' = (started \/ (TRUE /\ content # << >>))
    BY <1>4, <1>8 DEF WriteBackend, WriteIpc, WriteGeoParquet, WriteCsv, WriteGeoJson, WriteKml,
         WriteGpkg, WriteFileGdb, WriteShp, WriteXls, WriteDxf, Put
  <2>2. /\ Separated(FALSE, Flat \o BatchParts)
             = Separated(FALSE, Flat) \o Separated(Flat # << >>, BatchParts)
        /\ Separated(FALSE, Flat) \in Seq(PartSet)
        /\ Separated(Flat # << >>, BatchParts) \in Seq(PartSet)
    <3>1. Separated(FALSE, Flat \o BatchParts)
             = Separated(FALSE, Flat) \o Separated(Flat # << >>, BatchParts)
      BY <1>2, SeparatedAppend
    <3>2. \A flag \in BOOLEAN : Separated(flag, Flat) \in Seq(PartSet) /\ Separated(flag, BatchParts) \in Seq(PartSet)
      BY <1>2, SeparatedAppend
    <3>3. (Flat # << >>) \in BOOLEAN
      OBVIOUS
    <3>. QED  BY <3>1, <3>2, <3>3
  <2>3. Opening = <<Open>> /\ HeaderOf(acknowledged) = << >> /\ HeaderOf(after) = << >>
        /\ \A parts : Body(parts) = Separated(FALSE, parts)
    BY <1>8 DEF Opening, HeaderOf, Body
  <2>4. staged = <<Open>> \o (<< >> \o Separated(FALSE, Flat))
    BY <1>3, <1>8, <2>3
  <2>. DEFINE old == Separated(FALSE, Flat)
              new == Separated(Flat # << >>, BatchParts)
  <2>5. staged' = (<<Open>> \o (<< >> \o old)) \o new
    BY <1>3, <1>8, <2>1, <2>4
  <2>6. old \in Seq(PartSet) /\ new \in Seq(PartSet)
        /\ Separated(FALSE, Flat \o BatchParts) = old \o new
    BY <2>2
  <2>. HIDE DEF old, new
  <2>7. << >> \o old = old /\ << >> \o (old \o new) = old \o new
    BY <2>6
  <2>8. (<<Open>> \o old) \o new = <<Open>> \o (old \o new)
    BY <1>2, <2>6, ConcatAssociative
  <2>9. staged' = Opening \o (HeaderOf(after) \o Body(Flat \o BatchParts))
    <3>. HIDE DEF after
    <3>. QED  BY <2>3, <2>5, <2>6, <2>7, <2>8
  <2>10. started' = (Flat \o BatchParts # << >>)
    <3>1. content # << >> <=> n # 0
      BY <1>1
    <3>2. Len(Flat \o BatchParts) = Len(Flat) + n /\ Len(Flat) \in Nat
      BY <1>2
    <3>3. Flat # << >> <=> Len(Flat) # 0
      BY <1>2
    <3>4. Flat \o BatchParts # << >> <=> Len(Flat) + n # 0
      BY <1>2, <3>2
    <3>. HIDE DEF n, content
    <3>5. Flat \o BatchParts # << >> <=> Flat # << >> \/ content # << >>
      BY <1>2, <3>1, <3>2, <3>3, <3>4
    <3>. QED  BY <1>3, <1>8, <2>1, <3>5
  <2>. QED  BY <1>5, <1>8, <2>9, <2>10
<1>9. CASE format \in {"xls", "dxf"}
  <2>1. CASE Keep(batch.layer, content)
    BY <1>1, <1>3, <1>4, <1>5, <1>9, <2>1 DEF Keep
  <2>2. CASE ~ Keep(batch.layer, content)
    <3>1. format = "dxf" /\ ~ Encodable(content) /\ n = 0
      BY <1>9, <2>2 DEF WriteBackend, WriteIpc, WriteGeoParquet, WriteCsv, WriteGeoJson, WriteKml,
           WriteGpkg, WriteFileGdb, WriteShp, WriteXls, WriteDxf
    <3>2. Encodable(content)
      BY <3>1 DEF Encodable, OneShape
    <3>. QED  BY <3>1, <3>2
  <2>. QED  BY <2>1, <2>2
<1>. QED  BY <1>1, <1>6, <1>7, <1>8, <1>9 DEF Formats

LEMMA ShapesTyped ==
  ASSUME NEW content \in Seq(RowKinds)
  PROVE  Shapes(content) \subseteq {"point", "line"}
<1>1. \A i \in 1 .. Len(content) : content[i] \in RowKinds
  OBVIOUS
<1>. QED  BY <1>1 DEF Shapes, RowKinds

LEMMA BackendTyped ==
  ASSUME WriterTyped, NEW n, NEW layer, NEW content \in Seq(RowKinds),
         WriteBackend(n, layer, content)
  PROVE  /\ format' = format /\ xy' = xy /\ started' \in BOOLEAN
         /\ shape_type' \subseteq {"point", "line"}
<1>1. format' = format /\ xy' = xy
  BY DEF WriteBackend, WriteIpc, WriteGeoParquet, WriteCsv, WriteGeoJson, WriteKml, WriteGpkg,
         WriteFileGdb, WriteShp, WriteXls, WriteDxf, WriteInserted, WriteWhole, Keep, backendVars
<1>2. started' = started \/ started' = TRUE \/ started' = (started \/ (Ok(n, content) /\ content # << >>))
  BY DEF WriteBackend, WriteIpc, WriteGeoParquet, WriteCsv, WriteGeoJson, WriteKml, WriteGpkg,
         WriteFileGdb, WriteShp, WriteXls, WriteDxf, WriteInserted, WriteWhole, Keep, backendVars
<1>3. shape_type' = shape_type \/ shape_type' = shape_type \cup Shapes(content)
  BY DEF WriteBackend, WriteIpc, WriteGeoParquet, WriteCsv, WriteGeoJson, WriteKml, WriteGpkg,
         WriteFileGdb, WriteShp, WriteXls, WriteDxf, WriteInserted, WriteWhole, Keep, backendVars
<1>. QED  BY <1>1, <1>2, <1>3, ShapesTyped DEF WriterTyped

\* One shape for the whole of a shapefile, the batches before included.
LEMMA OneShapeKept ==
  ASSUME NEW content \in Seq(RowKinds), NEW layer, format = "shp",
         WriteBackend(Len(content), layer, content),
         shape_type \subseteq {"point", "line"}, ~ {"point", "line"} \subseteq shape_type
  PROVE  /\ ~ {"point", "line"} \subseteq shape_type'
         /\ shape_type \subseteq shape_type'
         /\ \A i \in 1 .. Len(content) : content[i] \in shape_type' \cup {"null"}
<1>1. WriteShp(Len(content), layer, content)
  BY DEF WriteBackend, WriteIpc, WriteGeoParquet, WriteCsv, WriteGeoJson, WriteKml, WriteGpkg,
         WriteFileGdb, WriteXls, WriteDxf
<1>2. shape_type' = shape_type \cup Shapes(content)
  BY <1>1 DEF WriteShp, Ok
<1>3. Encodable(content)
  <2>1. CASE Len(content) = 0
    <3>1. Shapes(content) = {}
      BY <2>1 DEF Shapes
    <3>. QED  BY <2>1, <3>1 DEF Encodable, OneShape
  <2>2. CASE Len(content) # 0
    BY <1>1, <2>2 DEF WriteShp, WritePrepared
  <2>. QED  BY <2>1, <2>2
<1>4. \A shape \in Shapes(content) : Shapes(content) \cup shape_type \subseteq {shape}
  BY <1>3 DEF Encodable, OneShape
<1>5. ~ {"point", "line"} \subseteq shape_type'
  <2>1. CASE Shapes(content) = {}
    BY <1>2, <2>1
  <2>2. CASE Shapes(content) # {}
    BY <1>2, <1>4, <2>2
  <2>. QED  BY <2>1, <2>2
<1>6. ASSUME NEW i \in 1 .. Len(content) PROVE content[i] \in shape_type' \cup {"null"}
  <2>1. content[i] # "odd"
    BY <1>3 DEF Encodable, Fits
  <2>2. CASE content[i] = "null"
    BY <2>2
  <2>3. CASE content[i] # "null"
    <3>1. content[i] \in Shapes(content)
      BY <2>1, <2>3 DEF Shapes
    <3>. QED  BY <1>2, <3>1
  <2>. QED  BY <2>2, <2>3
<1>. QED  BY <1>2, <1>5, <1>6

-----------------------------------------------------------------------------
(* Each call of the wrapper keeps the writer truthful *)

\* Nothing a document or a count is read from has changed.
LEMMA DocumentFrozen ==
  ASSUME UNCHANGED <<format, xy, acknowledged, layers>>
  PROVE  /\ Flat' = Flat /\ Written' = Written /\ Layers' = Layers
         /\ DocumentOf(acknowledged)' = DocumentOf(acknowledged)
         /\ \A document : Readable(document)' <=> Readable(document)
         /\ \A layer : RowsOf(layer)' = RowsOf(layer)
         /\ \A row : Fits(row)' <=> Fits(row)
<1>1. Flat' = Flat /\ Written' = Written /\ Layers' = Layers
  BY DEF Flat, Written, Layers
<1>2. DocumentOf(acknowledged)' = DocumentOf(acknowledged)
  BY DEF DocumentOf, Framed, HeaderOf
<1>3. \A row : Fits(row)' <=> Fits(row)
  BY DEF Fits
<1>4. \A document : Readable(document)' <=> Readable(document)
  BY <1>3 DEF Readable
<1>5. \A layer : RowsOf(layer)' = RowsOf(layer)
  BY DEF RowsOf
<1>. QED  BY <1>1, <1>2, <1>3, <1>4, <1>5

\* The writer ends, or has ended: by a drop, an unwound stack or an answer,
\* with which a destination may go away but none appears.
LEMMA WriterLeft ==
  ASSUME WriterInv,
         writer' \in {writer, "closed"},
         (call' = "idle" /\ reserved' = 0) \/ UNCHANGED <<call, reserved>>,
         destination' \subseteq destination,
         UNCHANGED <<layers, batch, layer_rows, input_totals, failed, committed, acknowledged, backendVars>>
  PROVE  WriterInv'
<1>1. UNCHANGED <<format, xy, acknowledged, layers, started, shape_type, staged, buffer>>
  BY DEF backendVars
<1>2. /\ Flat' = Flat /\ Written' = Written /\ Layers' = Layers
      /\ DocumentOf(acknowledged)' = DocumentOf(acknowledged)
      /\ \A document : Readable(document)' <=> Readable(document)
      /\ \A layer : RowsOf(layer)' = RowsOf(layer)
      /\ \A row : Fits(row)' <=> Fits(row)
  BY <1>1, DocumentFrozen
<1>3. WriterTyped'
  BY <1>1, <1>2 DEF WriterInv, WriterTyped
<1>4. Charged'
  BY <1>1, <1>2 DEF WriterInv, Charged, TotalsMatch
<1>5. Staging'
  BY <1>1, <1>2 DEF WriterInv, Staging, Opening, HeaderOf, Body
<1>6. Published'
  BY <1>1, <1>2 DEF WriterInv, Published
<1>. QED  BY <1>3, <1>4, <1>5, <1>6 DEF WriterInv

LEMMA WriterUntouched ==
  ASSUME WriterInv, UNCHANGED <<writerVars, backendVars>>
  PROVE  WriterInv'
BY WriterLeft DEF writerVars, limitVars

LEMMA CreateKeeps ==
  ASSUME WriterInv, NEW count \in Nat, Create(count)
  PROVE  WriterInv'
<1>1. /\ writer = "none" /\ layers' = count /\ CreateBackend
      /\ UNCHANGED <<batch, failed, reserved, committed, acknowledged, destination>>
      /\ call' = "idle"
  BY DEF Create, Return
<1>2. /\ acknowledged = << >> /\ layer_rows = << >> /\ call = "idle" /\ ~ failed
      /\ destination = {} /\ Flat = << >> /\ reserved = 0 /\ committed = 0
  BY <1>1, FlattenEmpty DEF WriterInv, WriterTyped, Charged, Flat
<1>3. /\ format' = format /\ xy' = xy /\ buffer' = << >> /\ started' = FALSE /\ shape_type' = {}
      /\ staged' = (IF format \in {"csv", "xls", "dxf"} THEN << >> ELSE <<Open>>)
  BY <1>1 DEF CreateBackend, CreateIpc, CreateGeoParquet, CreateCsv, CreateGeoJson, CreateKml,
              CreateGpkg, CreateFileGdb, CreateShp, CreateXls, CreateDxf, Begin
<1>4. Flat' = << >> /\ acknowledged' = << >> /\ RowsOf(0)' = 0 /\ \A layer : RowsOf(layer)' = 0
  <2>1. acknowledged' = << >> /\ FlattenSeq(acknowledged') = << >>
    BY <1>1, <1>2, FlattenEmpty
  <2>2. ASSUME NEW layer PROVE RowsOf(layer)' = 0
    <3>1. Len(FlattenSeq(acknowledged')) = 0
      BY <2>1
    <3>2. {i \in 1 .. Len(FlattenSeq(acknowledged')) : FlattenSeq(acknowledged')[i].layer = layer} = {}
      BY <3>1
    <3>. QED  BY <3>2, FS_EmptySet DEF RowsOf
  <2>. QED  BY <2>1, <2>2 DEF Flat
<1>5. CASE writer' = "open"
  <2>1. /\ layer_rows' = [layer \in 1 .. count |-> 0]
        /\ input_totals' = [layer \in 1 .. count |-> NoTotal]
        /\ count = 1 \/ format \in MultiLayer
    BY <1>5 DEF Create
  <2>2. WriterTyped'
    <3>1. layer_rows' \in [Layers' -> Nat] /\ input_totals' \in [Layers' -> Int]
      BY <1>1, <2>1 DEF Layers, NoTotal
    <3>. QED  BY <1>1, <1>2, <1>3, <1>4, <1>5, <3>1, EmptySeq DEF WriterInv, WriterTyped
  <2>3. Charged'
    BY <1>1, <1>2, <1>4, <2>1 DEF Charged
  <2>4. Staging'
    <3>1. Separated(FALSE, << >>) = << >>
      <4>1. Separated(FALSE, << >>) = FlattenSeq(<< >>)
        BY DEF Separated
      <4>. QED  BY <4>1, FlattenEmpty
    <3>2. Opening' = (IF format = "csv" THEN << >> ELSE <<Open>>) /\ HeaderOf(acknowledged)' = << >>
          /\ Body(Flat)' = << >>
      BY <1>3, <1>4, <3>1 DEF Opening, HeaderOf, Body
    <3>3. Opening' \o (<< >> \o << >>) = Opening'
      BY <3>2
    <3>4. format' \notin {"xls", "dxf"} => staged' = Opening' \o (HeaderOf(acknowledged)' \o Body(Flat)')
      BY <1>3, <3>2, <3>3
    <3>5. format' = "shp" => /\ {Flat[i].row : i \in 1 .. Len(Flat)}' \subseteq shape_type' \cup {"null"}
                             /\ ~ {"point", "line"} \subseteq shape_type'
      BY <1>3, <1>4
    <3>6. started' = (acknowledged' # << >>) /\ started' = (Flat' # << >>)
      BY <1>3, <1>4
    <3>7. \A i \in 1 .. Len(Flat') : Fits(Flat[i].row)'
      BY <1>4
    <3>8. layers' = 1 \/ format' \in MultiLayer
      BY <1>1, <1>3, <2>1
    <3>9. format' \in {"xls", "dxf"} => staged' = << >> /\ buffer' = acknowledged'
      BY <1>3, <1>4
    <3>. QED  BY <3>4, <3>5, <3>6, <3>7, <3>8, <3>9 DEF Staging
  <2>5. Published'
    BY <1>1, <1>2 DEF Published
  <2>. QED  BY <2>2, <2>3, <2>4, <2>5 DEF WriterInv
<1>6. CASE writer' # "open"
  <2>1. writer' = "closed" /\ UNCHANGED <<layer_rows, input_totals>>
    BY <1>6 DEF Create
  <2>2. WriterTyped'
    BY <1>1, <1>2, <1>3, <1>4, <2>1, EmptySeq DEF WriterInv, WriterTyped
  <2>3. Charged'
    BY <1>1, <1>2, <1>4, <2>1 DEF Charged
  <2>4. Staging' /\ Published'
    BY <1>1, <1>2, <2>1 DEF Staging, Published
  <2>. QED  BY <2>2, <2>3, <2>4 DEF WriterInv
<1>. QED  BY <1>5, <1>6

LEMMA DeclareKeeps ==
  ASSUME WriterInv, NEW layer, NEW total \in Nat, DeclareTotal(layer, total)
  PROVE  WriterInv'
<1>1. /\ writer = "open" /\ call = "idle" /\ call' = "idle"
      /\ UNCHANGED <<writer, layers, batch, layer_rows, failed, reserved, committed, acknowledged,
                     destination, format, xy, started, shape_type, staged, buffer>>
      /\ \/ layer \in Layers /\ input_totals' = [input_totals EXCEPT ![layer] = total]
         \/ input_totals' = input_totals
  BY DEF DeclareTotal, Declarable, Return, backendVars
<1>2. /\ Flat' = Flat /\ Written' = Written /\ Layers' = Layers
      /\ DocumentOf(acknowledged)' = DocumentOf(acknowledged)
      /\ \A document : Readable(document)' <=> Readable(document)
      /\ \A l : RowsOf(l)' = RowsOf(l)
      /\ \A row : Fits(row)' <=> Fits(row)
  BY <1>1, DocumentFrozen
<1>3. input_totals' \in [Layers -> Int]
  BY <1>1 DEF WriterInv, WriterTyped
<1>4. WriterTyped'
  BY <1>1, <1>2, <1>3 DEF WriterInv, WriterTyped
<1>5. Charged'
  BY <1>1, <1>2 DEF WriterInv, Charged
<1>6. Staging'
  BY <1>1, <1>2 DEF WriterInv, Staging, Opening, HeaderOf, Body
<1>7. Published'
  BY <1>1 DEF WriterInv, Published
<1>. QED  BY <1>4, <1>5, <1>6, <1>7 DEF WriterInv

LEMMA BeginWriteKeeps ==
  ASSUME WriterInv, NEW layer, NEW content \in Seq(RowKinds), BeginWrite(layer, content)
  PROVE  WriterInv'
<1>1. /\ writer = "open" /\ call = "idle"
      /\ UNCHANGED <<writer, layers, layer_rows, input_totals, committed, acknowledged,
                     destination, format, xy, started, shape_type, staged, buffer>>
      /\ failed' \in {failed, TRUE}
      /\ \/ call' = "idle" /\ UNCHANGED <<batch, reserved>>
         \/ /\ call' = "write" /\ ~ failed /\ UNCHANGED failed
            /\ layer \in Layers /\ reserved' = Len(content)
            /\ batch' = [layer |-> layer, rows |-> content]
  BY DEF BeginWrite, WriteStopped, WriteSpoiled, WriteRefused, WriteAccounted, Accountable, Return,
         backendVars
<1>2. /\ Flat' = Flat /\ Written' = Written /\ Layers' = Layers
      /\ DocumentOf(acknowledged)' = DocumentOf(acknowledged)
      /\ \A document : Readable(document)' <=> Readable(document)
      /\ \A l : RowsOf(l)' = RowsOf(l)
      /\ \A row : Fits(row)' <=> Fits(row)
  BY <1>1, DocumentFrozen
<1>3. ~ failed' => ~ failed
  <2>1. CASE failed' = failed
    BY <2>1
  <2>2. CASE failed' = TRUE
    BY <2>2
  <2>. QED  BY <1>1, <2>1, <2>2
<1>4. WriterTyped'
  BY <1>1, <1>2 DEF WriterInv, WriterTyped
<1>5. Charged'
  BY <1>1, <1>2 DEF WriterInv, Charged
<1>6. Staging'
  BY <1>3, <1>1, <1>2 DEF WriterInv, Staging, Opening, HeaderOf, Body
<1>7. Published'
  BY <1>1 DEF WriterInv, Published
<1>. QED  BY <1>4, <1>5, <1>6, <1>7 DEF WriterInv

LEMMA BeginFinishKeeps ==
  ASSUME WriterInv, BeginFinish
  PROVE  WriterInv'
<1>1. CASE ~ halted /\ ~ failed /\ TotalsMatch
  <2>1. /\ writer = "open" /\ call' = "finish" /\ reserved = 0
        /\ UNCHANGED <<writer, layers, batch, layer_rows, input_totals, committed, acknowledged, failed,
                       reserved, destination, format, xy, started, shape_type, staged, buffer>>
    BY <1>1 DEF BeginFinish, backendVars, limitVars, WriterInv, Charged
  <2>2. /\ Flat' = Flat /\ Written' = Written /\ Layers' = Layers
        /\ DocumentOf(acknowledged)' = DocumentOf(acknowledged)
        /\ \A document : Readable(document)' <=> Readable(document)
        /\ \A l : RowsOf(l)' = RowsOf(l)
        /\ \A row : Fits(row)' <=> Fits(row)
    BY <2>1, DocumentFrozen
  <2>3. WriterTyped'
    BY <2>1, <2>2 DEF WriterInv, WriterTyped
  <2>4. Charged'
    BY <1>1, <2>1, <2>2 DEF WriterInv, Charged, TotalsMatch
  <2>5. Staging'
    BY <2>1, <2>2 DEF WriterInv, Staging, Opening, HeaderOf, Body
  <2>6. Published'
    BY <2>1 DEF WriterInv, Published
  <2>. QED  BY <2>3, <2>4, <2>5, <2>6 DEF WriterInv
<1>2. CASE ~ (~ halted /\ ~ failed /\ TotalsMatch)
  <2>1. /\ writer' = "closed" /\ call' = "idle" /\ call = "idle" /\ reserved' = 0
        /\ UNCHANGED <<layers, batch, limitVars, acknowledged, destination, backendVars>>
    BY <1>2 DEF BeginFinish, Close, Return, limitVars, WriterInv, Charged
  <2>. QED  BY <2>1, WriterLeft DEF limitVars
<1>. QED  BY <1>1, <1>2

LEMMA EndFinishKeeps ==
  ASSUME WriterInv, EndFinish
  PROVE  /\ WriterInv'
         /\ result' = "ok" => destination' = {DocumentOf(acknowledged)'} /\ UNCHANGED acknowledged
<1>1. /\ writer = "open" /\ call = "finish" /\ ~ failed /\ TotalsMatch /\ reserved = 0
      /\ writer' = "closed" /\ call' = "idle"
      /\ UNCHANGED <<layers, batch, layer_rows, input_totals, committed, acknowledged, failed, reserved>>
  BY DEF EndFinish, FinishPublishes, FinishFails, Close, Return, WriterInv, Charged, limitVars
<1>2. CASE FinishFails
  <2>1. UNCHANGED <<destination, backendVars>> /\ result' # "ok"
    BY <1>2 DEF FinishFails, Close, Return
  <2>2. WriterInv'
    BY <1>1, <2>1, WriterLeft
  <2>. QED  BY <2>1, <2>2
<1>3. CASE FinishPublishes
  <2>1. /\ FinishBackend /\ destination' = {staged'}
        /\ UNCHANGED <<format, xy, buffer, started, shape_type>>
    BY <1>3 DEF FinishPublishes, FinishBackend
  <2>2. staged' = DocumentOf(acknowledged) /\ \A i \in 1 .. Len(Flat) : Fits(Flat[i].row)
    BY <1>1, <2>1, BackendFinishes
  <2>3. Readable(DocumentOf(acknowledged))
    BY <1>1, <2>2, DocumentReadable
  <2>4. /\ Flat' = Flat /\ Written' = Written /\ Layers' = Layers
        /\ DocumentOf(acknowledged)' = DocumentOf(acknowledged)
        /\ \A document : Readable(document)' <=> Readable(document)
        /\ \A l : RowsOf(l)' = RowsOf(l)
        /\ \A row : Fits(row)' <=> Fits(row)
    BY <1>1, <2>1, DocumentFrozen
  <2>5. WriterTyped'
    BY <1>1, <2>1, <2>4 DEF WriterInv, WriterTyped
  <2>6. Charged'
    BY <1>1, <2>4 DEF WriterInv, Charged
  <2>7. Staging'
    BY <1>1 DEF Staging
  <2>8. Published'
    <3>1. \A layer \in Layers : layer_rows[layer] = RowsOf(layer)
      BY <1>1 DEF WriterInv, WriterTyped, Charged
    <3>2. \A layer \in Layers : input_totals[layer] \in {NoTotal, RowsOf(layer)}
      BY <1>1, <3>1 DEF TotalsMatch
    <3>. QED  BY <1>1, <2>1, <2>2, <2>3, <2>4, <3>2 DEF Published
  <2>. QED  BY <1>1, <2>1, <2>2, <2>4, <2>5, <2>6, <2>7, <2>8 DEF WriterInv
<1>. QED  BY <1>2, <1>3 DEF EndFinish

LEMMA DropKeeps ==
  ASSUME WriterInv, Drop
  PROVE  WriterInv'
BY WriterLeft DEF Drop

\* The charge of the batch that was written whole.
LEMMA EndWriteCommits ==
  ASSUME WriterInv, writer = "open", call = "write",
         WriteBackend(Len(batch.rows), batch.layer, batch.rows), Committed, reserved' = 0,
         UNCHANGED <<writer, layers, input_totals, destination>>
  PROVE  WriterInv' /\ acknowledged' = Append(acknowledged, BatchParts)
<1>. DEFINE after == Append(acknowledged, BatchParts)
<1>1. /\ WriterTyped /\ batch.layer \in Layers /\ batch.rows \in Seq(RowKinds) /\ layers \in Nat
      /\ reserved = Len(batch.rows) /\ ~ failed /\ layer_rows \in [Layers -> Nat]
      /\ destination = {}
  BY DEF WriterInv, WriterTyped, Charged, Published
<1>2. /\ BatchParts \in Seq(Written) /\ Len(BatchParts) = Len(batch.rows) /\ Len(batch.rows) \in Nat
      /\ \A i \in 1 .. Len(BatchParts) : BatchParts[i].layer = batch.layer
      /\ \A i \in 1 .. Len(batch.rows) : BatchParts[i].row = batch.rows[i]
      /\ Flat \in Seq(Written) /\ Len(Flat) \in Nat
  BY <1>1, BatchTyped, FlatTyped
<1>3. after \in Seq(Seq(Written)) /\ after # << >> /\ FlattenSeq(after) = Flat \o BatchParts
  BY <1>1, FlatGrows
<1>. HIDE DEF after
<1>4. /\ acknowledged' = after /\ call' = "idle" /\ failed' = failed
      /\ committed' = committed + reserved
      /\ layer_rows' = [layer_rows EXCEPT ![batch.layer] = @ + Len(batch.rows)]
  BY DEF Committed, Return, BatchParts, after
<1>5. Flat' = Flat \o BatchParts /\ Written' = Written /\ Layers' = Layers
  BY <1>3, <1>4 DEF Flat, Written, Layers
<1>6. /\ format' = format /\ xy' = xy /\ started' \in BOOLEAN /\ shape_type' \subseteq {"point", "line"}
  BY <1>1, BackendTyped
<1>7. WriterTyped'
  <2>1. layer_rows' \in [Layers -> Nat]
    BY <1>1, <1>2, <1>4
  <2>. QED  BY <1>1, <1>3, <1>4, <1>5, <1>6, <2>1 DEF WriterTyped
<1>8. Len(Flat \o BatchParts) = Len(Flat) + Len(batch.rows)
  BY <1>2
<1>9. Charged'
  <2>1. committed' = Len(Flat')
    BY <1>1, <1>4, <1>5, <1>8 DEF WriterInv, Charged
  <2>2. ASSUME NEW layer \in Layers PROVE layer_rows'[layer] = RowsOf(layer)'
    <3>1. /\ RowsOf(layer) \in Nat
          /\ RowsOf(layer)' = RowsOf(layer) + (IF layer = batch.layer THEN Len(BatchParts) ELSE 0)
      <4>1. RowsOf(layer) = CountOf(Flat, layer)
        BY DEF RowsOf, Flat, CountOf
      <4>2. RowsOf(layer)' = CountOf(Flat \o BatchParts, layer)
        BY <1>5 DEF RowsOf, Flat, CountOf
      <4>3. CASE layer = batch.layer
        BY <1>2, <4>1, <4>2, <4>3, CountAppended
      <4>4. CASE layer # batch.layer
        BY <1>2, <4>1, <4>2, <4>4, CountAppended
      <4>. QED  BY <4>3, <4>4
    <3>2. layer_rows[layer] = RowsOf(layer)
      BY <1>1, <2>2 DEF WriterInv, Charged
    <3>. QED  BY <1>1, <1>2, <1>4, <2>2, <3>1, <3>2
  <2>3. DOMAIN layer_rows' = Layers
    BY <1>1, <1>4
  <2>. QED  BY <1>4, <2>1, <2>2, <2>3 DEF Charged
<1>10. Staging'
  <2>1. /\ format \in {"xls", "dxf"} => staged' = << >> /\ buffer' = after
        /\ format \notin {"xls", "dxf"} =>
             staged' = Opening \o (HeaderOf(after) \o Body(Flat \o BatchParts))
        /\ format = "csv" => started' = TRUE
        /\ format = "geojson" => started' = (Flat \o BatchParts # << >>)
    BY BackendWrites DEF after
  <2>2. Opening' = Opening /\ HeaderOf(acknowledged)' = HeaderOf(after)
        /\ Body(Flat)' = Body(Flat \o BatchParts)
    BY <1>4, <1>5, <1>6 DEF Opening, HeaderOf, Body
  <2>3. \A i \in 1 .. Len(Flat') : \/ i \in 1 .. Len(Flat) /\ Flat'[i] = Flat[i]
                                   \/ /\ i - Len(Flat) \in 1 .. Len(batch.rows)
                                      /\ Flat'[i].row = batch.rows[i - Len(Flat)]
    <3>1. ASSUME NEW i \in 1 .. Len(Flat) + Len(batch.rows)
          PROVE  \/ i \in 1 .. Len(Flat) /\ (Flat \o BatchParts)[i] = Flat[i]
                 \/ /\ i - Len(Flat) \in 1 .. Len(batch.rows)
                    /\ (Flat \o BatchParts)[i] = BatchParts[i - Len(Flat)]
      BY <1>2
    <3>. QED  BY <1>2, <1>5, <1>8, <3>1
  <2>4. format' # "xls" => \A i \in 1 .. Len(Flat') : Fits(Flat[i].row)'
    <3>1. SUFFICES ASSUME format # "xls", NEW i \in 1 .. Len(Flat') PROVE Fits(Flat'[i].row)
      BY <1>6 DEF Fits
    <3>2. \A j \in 1 .. Len(Flat) : Fits(Flat[j].row)
      BY <1>1, <3>1 DEF WriterInv, Staging
    <3>3. \A j \in 1 .. Len(batch.rows) : Fits(batch.rows[j])
      BY <1>1, <3>1, WrittenFits
    <3>. QED  BY <2>3, <3>1, <3>2, <3>3
  <2>5. format' = "shp" => /\ {Flat[i].row : i \in 1 .. Len(Flat)}' \subseteq shape_type' \cup {"null"}
                           /\ ~ {"point", "line"} \subseteq shape_type'
    <3>1. SUFFICES ASSUME format = "shp"
                   PROVE  /\ \A i \in 1 .. Len(Flat') : Flat'[i].row \in shape_type' \cup {"null"}
                          /\ ~ {"point", "line"} \subseteq shape_type'
      BY <1>6
    <3>2. /\ {Flat[i].row : i \in 1 .. Len(Flat)} \subseteq shape_type \cup {"null"}
          /\ ~ {"point", "line"} \subseteq shape_type
      BY <1>1, <3>1 DEF WriterInv, Staging
    <3>3. /\ ~ {"point", "line"} \subseteq shape_type'
          /\ shape_type \subseteq shape_type'
          /\ \A i \in 1 .. Len(batch.rows) : batch.rows[i] \in shape_type' \cup {"null"}
      BY <1>1, <3>1, <3>2, OneShapeKept DEF WriterTyped
    <3>. QED  BY <2>3, <3>2, <3>3
  <2>6. layers' = 1 \/ format' \in MultiLayer
    BY <1>1, <1>6 DEF WriterInv, Staging
  <2>7. format' = "csv" => started' = (acknowledged' # << >>)
    BY <1>3, <1>4, <1>6, <2>1
  <2>8. format' = "geojson" => started' = (Flat' # << >>)
    BY <1>5, <1>6, <2>1
  <2>9. /\ format' \in {"xls", "dxf"} => staged' = << >> /\ buffer' = acknowledged'
        /\ format' \notin {"xls", "dxf"} =>
             staged' = Opening' \o (HeaderOf(acknowledged)' \o Body(Flat)')
    BY <1>4, <1>6, <2>1, <2>2
  <2>. QED  BY <2>4, <2>5, <2>6, <2>7, <2>8, <2>9 DEF Staging
<1>11. Published'
  BY <1>1 DEF Published
<1>. QED  BY <1>4, <1>7, <1>9, <1>10, <1>11 DEF WriterInv, after

LEMMA EndWriteKeeps ==
  ASSUME WriterInv, EndWrite
  PROVE  /\ WriterInv'
         /\ result' = "ok" => acknowledged' = Append(acknowledged, BatchParts)
<1>1. /\ writer = "open" /\ call = "write" /\ reserved' = 0
      /\ UNCHANGED <<writer, layers, input_totals, destination>>
  BY DEF EndWrite
<1>2. batch.rows \in Seq(RowKinds) /\ batch.layer \in Layers /\ destination = {}
  BY <1>1 DEF WriterInv, Charged, Published
<1>3. PICK n \in 0 .. Len(batch.rows) :
        /\ WriteBackend(n, batch.layer, batch.rows)
        /\ IF Ok(n, batch.rows) THEN Committed ELSE Spoiled
  BY DEF EndWrite
<1>4. CASE n = Len(batch.rows)
  <2>1. WriteBackend(Len(batch.rows), batch.layer, batch.rows) /\ Committed
    BY <1>3, <1>4 DEF Ok
  <2>. QED  BY <1>1, <2>1, EndWriteCommits
<1>5. CASE n # Len(batch.rows)
  <2>1. /\ failed' = TRUE /\ call' = "idle" /\ result' # "ok"
        /\ UNCHANGED <<committed, layer_rows, acknowledged>>
    BY <1>3, <1>5 DEF Ok, Spoiled, Return
  <2>2. /\ format' = format /\ xy' = xy /\ started' \in BOOLEAN
        /\ shape_type' \subseteq {"point", "line"}
    BY <1>2, <1>3, BackendTyped DEF WriterInv
  <2>3. /\ Flat' = Flat /\ Written' = Written /\ Layers' = Layers
        /\ \A l : RowsOf(l)' = RowsOf(l)
    BY <1>1, <2>1, <2>2, DocumentFrozen
  <2>4. WriterTyped'
    BY <1>1, <2>1, <2>2, <2>3 DEF WriterInv, WriterTyped
  <2>5. Charged'
    BY <1>1, <2>1, <2>3 DEF WriterInv, Charged
  <2>6. Staging' /\ Published'
    BY <1>1, <1>2, <2>1 DEF Staging, Published
  <2>. QED  BY <2>1, <2>4, <2>5, <2>6 DEF WriterInv
<1>. QED  BY <1>4, <1>5

LEMMA WriterInvImplies ==
  ASSUME WriterInv
  PROVE  WriterIsTruthful
<1>1. call = "idle" => reserved = 0
  BY DEF WriterInv, Charged
<1>. QED  BY <1>1 DEF WriterInv, Charged, Published, WriterIsTruthful, Flat

-----------------------------------------------------------------------------
(* What is true of a command between two steps *)

Reading == {"first", "declare", "write", "writing", "next", "reader_end"}
Sinking == Reading \cup {"reader", "finish", "finishing"}
Answering == {"documents", "stream", "control", "succeeding"}
Starting == {"prepare", "start", "select", "create"}
Phases == Starting \cup {"closing", "failing", "answered", "killed", "library"}
            \cup Sinking \cup Answering

CommandTyped ==
  /\ host \in {"cli", "runtime", "library"}
  /\ command \in {"convert", "write", "deliver", "count", "describe"}
  /\ phase \in Phases /\ (phase = "library" <=> host = "library")
  /\ source \in Seq(Seq(Seq(RowKinds))) /\ selected \in Seq(1 .. Len(source))
  /\ reader \in [place : Nat, given : Nat, open : BOOLEAN]
  /\ current \in Seq(Seq(RowKinds)) /\ private \in BOOLEAN
  /\ host = "library" => command = "convert"
  /\ command = "count" =>
       phase \notin {"create", "declare", "write", "writing", "finish", "finishing"}
  /\ phase \in Starting => reader.place = 0
  /\ phase = "reader" => reader.place < Len(selected)
  /\ phase \in Reading => reader.place \in 1 .. Len(selected)
  /\ phase \in {"write", "writing"} => current # << >>

\* Which leases and which destination each phase can hold.
Held ==
  /\ host # "library" => in_use = Slot(reader.open) + Slot(writer = "open")
  /\ reader.open => phase \in Reading \cup {"failing", "killed"}
  /\ phase \in Reading => reader.open
  /\ writer = "open" => phase \in Sinking \cup {"failing", "killed", "library"}
  /\ phase \in Starting => writer = "none"
  /\ command = "count" => writer = "none"
  /\ reply = "none" \/ phase \in {"answered", "killed"}
  /\ host = "cli" /\ destination # {} =>
       phase \in {"documents", "succeeding", "answered", "killed"} /\ reply # "error"
  /\ phase = "prepare" => Streamed
  /\ private =>
       Streamed /\ reply \in {"none", "unremoved"} /\ phase \notin {"prepare", "control", "succeeding"}
  /\ Streamed /\ ~ private =>
       /\ destination = {}
       /\ phase \in {"prepare", "control", "succeeding", "failing", "answered", "killed"}

\* The batches of the first layers selected, and of one of them.
LayerParts(i) == [n \in 1 .. Len(LayerOf(i)) |-> RowParts(i, LayerOf(i)[n])]
Upto(place) == FlattenSeq([i \in 1 .. place |-> LayerParts(i)])
Taken == IF current = << >> THEN reader.given ELSE reader.given - 1

\* A command that writes: what has been acknowledged is what it has read, but
\* for the batch it holds, and after the last layer all of it is published.
Progress ==
  command \in {"convert", "write", "deliver"} =>
    /\ phase \in Starting => acknowledged = << >> /\ current = << >>
    /\ phase = "reader" =>
         acknowledged = Upto(reader.place) /\ current = << >>
    /\ phase \in Reading =>
         /\ reader.given \in 0 .. Len(LayerOf(reader.place))
         /\ acknowledged = Upto(reader.place - 1) \o SubSeq(LayerParts(reader.place), 1, Taken)
         /\ current # << >> =>
              reader.given > 0 /\ current = <<LayerOf(reader.place)[reader.given]>>
         /\ phase \in {"first", "next", "reader_end"} => current = << >>
         /\ phase = "first" => reader.given = 0
         /\ phase \in {"declare", "reader_end"} /\ current = << >> =>
              reader.given = Len(LayerOf(reader.place))
         /\ phase = "writing" =>
              batch.layer = reader.place /\ batch.rows = current[1]
    /\ phase \in {"finish", "finishing"} \cup Answering => acknowledged = Upto(Len(selected))
    /\ phase \in Answering => destination \cup payload = {DocumentOf(acknowledged)}
    /\ phase = "closing" /\ payload # {} =>
         acknowledged = Upto(Len(selected)) /\ payload = {DocumentOf(acknowledged)}
    /\ phase \notin {"closing", "control", "succeeding", "failing", "answered", "killed"} => payload = {}
    /\ phase = "failing" /\ private => payload = {}
    /\ reply = "success" => destination \cup payload = {Whole}

\* The batch a reader gives next is one of its layer's.
LEMMA BatchesTyped ==
  ASSUME CommandTyped, phase \in Reading
  PROVE  /\ LayerOf(reader.place) \in Seq(Seq(RowKinds)) /\ Len(LayerOf(reader.place)) \in Nat
         /\ \A n \in 1 .. Len(LayerOf(reader.place)) : LayerOf(reader.place)[n] \in Seq(RowKinds)
         /\ TotalOf(LayerOf(reader.place)) \in Nat
<1>1. /\ reader.place \in 1 .. Len(selected) /\ selected \in Seq(1 .. Len(source))
      /\ source \in Seq(Seq(Seq(RowKinds)))
  BY DEF CommandTyped
<1>2. selected[reader.place] \in 1 .. Len(source)
  BY <1>1
<1>3. LayerOf(reader.place) \in Seq(Seq(RowKinds))
  BY <1>1, <1>2 DEF LayerOf
<1>. DEFINE layer == LayerOf(reader.place)
<1>4. layer \in Seq(Seq(RowKinds))
  BY <1>3
<1>. HIDE DEF layer
<1>5. /\ Len(layer) \in Nat /\ \A n \in 1 .. Len(layer) : layer[n] \in Seq(RowKinds)
  BY <1>4
<1>6. FlattenSeq(layer) \in Seq(RowKinds)
  BY <1>4, FlattenTyped
<1>7. TotalOf(layer) \in Nat
  BY <1>6 DEF TotalOf
<1>. QED  BY <1>3, <1>5, <1>7 DEF layer

LEMMA ChoicesTyped ==
  ASSUME source \in Seq(Seq(Seq(RowKinds))), NEW choice \in LayerChoices
  PROVE  /\ choice \in Seq(1 .. Len(source))
         /\ command = "count" => 0 < Len(choice)
<1>1. Len(source) \in Nat
  OBVIOUS
<1>2. CASE \E i \in 1 .. Len(source) : choice = <<i>>
  BY <1>2
<1>3. CASE command # "count" /\ choice = [i \in 1 .. Len(source) |-> i]
  BY <1>1, <1>3
<1>. QED  BY <1>2, <1>3 DEF LayerChoices

\* validate_write refuses a plan with no layer.
LEMMA CreateAccepts ==
  ASSUME NEW count \in Nat, Create(count), result' = "ok"
  PROVE  0 < count
<1>1. count = 1 \/ count > 1
  BY DEF Create, Return
<1>. QED  BY <1>1

LEMMA ReaderMoves ==
  ASSUME reader \in [place : Nat, given : Nat, open : BOOLEAN],
         reader' = [reader EXCEPT !.given = @ + 1]
  PROVE  /\ reader' \in [place : Nat, given : Nat, open : BOOLEAN]
         /\ reader'.place = reader.place /\ reader'.given = reader.given + 1
         /\ reader'.open = reader.open
<1>1. reader.given + 1 \in Nat
  OBVIOUS
<1>2. reader'.place = reader.place /\ reader'.given = reader.given + 1 /\ reader'.open = reader.open
  OBVIOUS
<1>. QED  BY <1>1

LEMMA TypedInit ==
  ASSUME CommandInit
  PROVE  CommandTyped
<1>1. source \in Seq(Seq(Seq(RowKinds))) /\ host \in {"cli", "runtime", "library"}
  BY ConversionAssumption DEF CommandInit
<1>2. /\ selected = << >> /\ reader = NoReader /\ current = << >> /\ private \in BOOLEAN
      /\ phase \in {"library", "prepare", "start"} /\ (phase = "library" <=> host = "library")
      /\ command \in {"convert", "write", "deliver", "count", "describe"}
      /\ host = "library" => command = "convert"
  BY DEF CommandInit
<1>3. << >> \in Seq(1 .. Len(source)) /\ << >> \in Seq(Seq(RowKinds))
  OBVIOUS
<1>. QED  BY <1>1, <1>2, <1>3 DEF CommandTyped, NoReader, Phases, Starting, Sinking, Reading, Answering

LEMMA TypedKept ==
  ASSUME CommandTyped, [CommandNext]_conversionVars
  PROVE  CommandTyped'
<1>0. << >> \in Seq(Seq(RowKinds)) /\ Len(selected) \in Nat
  BY EmptySeq DEF CommandTyped
<1>22. reader.place \in Nat /\ reader.given \in Nat /\ reader.open \in BOOLEAN
  BY DEF CommandTyped
<1>. USE DEF CommandTyped, Phases, Starting, Sinking, Reading, Answering, Proceed, Fail, commandVars, hostVars
<1>1. CASE OpenSource
  BY <1>1 DEF OpenSource
<1>2. CASE SelectLayers
  <2>1. CASE Fail /\ UNCHANGED selected
    BY <1>2, <2>1 DEF SelectLayers
  <2>2. CASE ~ (Fail /\ UNCHANGED selected)
    <3>1. PICK choice \in LayerChoices :
            selected' = choice /\ Proceed(IF command = "count" THEN "reader" ELSE "create")
      BY <1>2, <2>2 DEF SelectLayers
    <3>2. choice \in Seq(1 .. Len(source)) /\ (command = "count" => 0 < Len(choice))
      BY ChoicesTyped
    <3>. QED  BY <1>2, <3>1, <3>2 DEF SelectLayers
  <2>. QED  BY <2>1, <2>2
<1>3. CASE CreateSink
  <2>1. result' = "ok" => 0 < Len(selected)
    <3>1. Create(Len(selected))
      BY <1>3 DEF CreateSink
    <3>. QED  BY <1>0, <3>1, CreateAccepts
  <2>. QED  BY <1>3, <2>1 DEF CreateSink
<1>4. CASE OpenReader
  <2>1. CASE /\ reader' = [place |-> reader.place + 1, given |-> 0, open |-> TRUE]
             /\ phase' = "first"
    <3>1. phase = "reader" /\ reader'.place \in 1 .. Len(selected)
      BY <1>0, <1>22, <1>4, <2>1 DEF OpenReader
    <3>2. reader' \in [place : Nat, given : Nat, open : BOOLEAN]
      BY <1>22, <2>1
    <3>. QED  BY <1>4, <2>1, <3>1, <3>2 DEF OpenReader
  <2>2. CASE Fail /\ UNCHANGED reader
    BY <1>4, <2>2 DEF OpenReader
  <2>. QED  BY <1>4, <2>1, <2>2 DEF OpenReader
<1>5. CASE NextBatch
  <2>1. LayerOf(reader.place) \in Seq(Seq(RowKinds)) /\ Len(LayerOf(reader.place)) \in Nat
        /\ \A n \in 1 .. Len(LayerOf(reader.place)) : LayerOf(reader.place)[n] \in Seq(RowKinds)
    BY <1>5, BatchesTyped DEF NextBatch
  <2>2. /\ current' \in Seq(Seq(RowKinds))
        /\ phase' \in {"write", "writing"} => current' # << >>
        /\ reader' \in [place : Nat, given : Nat, open : BOOLEAN] /\ reader'.place = reader.place
    <3>1. CASE /\ reader.given < Len(LayerOf(reader.place))
               /\ current' = <<LayerOf(reader.place)[reader.given + 1]>>
               /\ reader' = [reader EXCEPT !.given = @ + 1]
      <4>1. reader.given + 1 \in 1 .. Len(LayerOf(reader.place))
        BY <2>1, <3>1
      <4>2. LayerOf(reader.place)[reader.given + 1] \in Seq(RowKinds)
        BY <2>1, <4>1
      <4>3. <<LayerOf(reader.place)[reader.given + 1]>> \in Seq(Seq(RowKinds))
        BY <4>2
      <4>4. /\ reader' \in [place : Nat, given : Nat, open : BOOLEAN]
            /\ reader'.place = reader.place
        BY <3>1, ReaderMoves
      <4>5. current' # << >>
        BY <3>1
      <4>. QED  BY <3>1, <4>3, <4>4, <4>5
    <3>2. CASE /\ current' = << >> /\ reader' = reader
               /\ phase' \in {"declare", "reader_end"}
      BY <3>2
    <3>3. CASE phase' = "failing" /\ UNCHANGED <<reader, current>>
      BY <3>3
    <3>. QED  BY <1>5, <3>1, <3>2, <3>3 DEF NextBatch
  <2>3. /\ phase \in {"first", "next"} /\ phase' \in Phases
        /\ phase' \in {"next", "reader_end", "declare", "write", "failing"}
        /\ command = "count" => phase' \notin {"declare", "write"}
        /\ UNCHANGED <<host, command, source, selected, private, reply>>
    BY <1>5 DEF NextBatch
  <2>. QED  BY <2>2, <2>3
<1>6. CASE Declare
  BY <1>6 DEF Declare
<1>7. CASE StartWrite
  BY <1>7 DEF StartWrite
<1>8. CASE CompleteWrite
  BY <1>0, <1>8 DEF CompleteWrite
<1>9. CASE EndReader
  <2>1. /\ reader' \in [place : Nat, given : Nat, open : BOOLEAN]
        /\ reader'.place = reader.place
    BY <1>22, <1>9 DEF EndReader
  <2>2. phase' = "reader" => reader.place < Len(selected)
    BY <1>9 DEF EndReader
  <2>3. /\ phase' \in {"documents", "reader", "finish"} /\ current' = << >>
        /\ command = "count" => phase' = "documents"
        /\ phase = "reader_end" /\ UNCHANGED <<host, command, source, selected, private, reply>>
    BY <1>9 DEF EndReader
  <2>. QED  BY <1>0, <2>1, <2>2, <2>3
<1>10. CASE StartFinish
  BY <1>10 DEF StartFinish
<1>11. CASE CompleteFinish
  BY <1>11 DEF CompleteFinish
<1>12. CASE WriteDocuments
  BY <1>12 DEF WriteDocuments
<1>13. CASE ReadStream
  BY <1>13 DEF ReadStream
<1>14. CASE Control
  BY <1>14 DEF Control
<1>15. CASE Succeed
  BY <1>15 DEF Succeed, Answer
<1>16. CASE Unwind
  <2>1. reader' \in [place : Nat, given : Nat, open : BOOLEAN]
    BY <1>22, <1>16 DEF Unwind, DropReaderAndWriter
  <2>. QED  BY <1>0, <1>16, <2>1 DEF Unwind, Answer
<1>17. CASE Panic
  BY <1>17 DEF Panic
<1>18. CASE Signal
  BY <1>18 DEF Signal, Running
<1>19. CASE Halt
  BY <1>19 DEF Halt
<1>20. CASE LibraryCall
  BY <1>20 DEF LibraryCall
<1>21. CASE UNCHANGED conversionVars
  BY <1>21 DEF conversionVars
<1>23. CASE PrepareDelivery
  BY <1>23 DEF PrepareDelivery
<1>24. CASE CloseDelivery
  BY <1>24 DEF CloseDelivery, Answer
<1>. QED  BY <1>1, <1>2, <1>3, <1>4, <1>5, <1>6, <1>7, <1>8, <1>9, <1>10, <1>11, <1>12, <1>13, <1>14,
             <1>15, <1>16, <1>17, <1>18, <1>19, <1>20, <1>21, <1>23, <1>24
             DEF CommandNext, CommandStep, Ended

LEMMA WriterInit ==
  ASSUME CommandInit
  PROVE  WriterInv
<1>1. /\ format \in Formats /\ xy \in BOOLEAN /\ started = FALSE /\ shape_type = {}
      /\ writer = "none" /\ layers = 0 /\ call = "idle" /\ layer_rows = << >> /\ failed = FALSE
      /\ reserved = 0 /\ committed = 0 /\ acknowledged = << >> /\ destination = {}
  BY DEF CommandInit, LimitedInit
<1>2. Flat = << >>
  BY <1>1, FlattenEmpty DEF Flat
<1>3. WriterTyped
  BY <1>1, EmptySeq DEF WriterTyped
<1>4. Charged
  BY <1>1, <1>2 DEF Charged
<1>. QED  BY <1>1, <1>3, <1>4 DEF WriterInv, Staging, Published

LEMMA WriterKept ==
  ASSUME WriterInv, CommandTyped, [CommandNext]_conversionVars
  PROVE  WriterInv'
<1>1. CASE UNCHANGED <<writerVars, backendVars>>
  BY <1>1, WriterUntouched
<1>2. CASE CreateSink
  <2>1. Len(selected) \in Nat /\ Create(Len(selected))
    BY <1>2 DEF CreateSink, CommandTyped
  <2>. QED  BY <2>1, CreateKeeps
<1>3. CASE Declare
  <2>1. phase \in Reading /\ DeclareTotal(reader.place, TotalOf(LayerOf(reader.place)))
    BY <1>3 DEF Declare, Reading
  <2>2. TotalOf(LayerOf(reader.place)) \in Nat
    BY <2>1, BatchesTyped
  <2>. QED  BY <2>1, <2>2, DeclareKeeps
<1>4. CASE StartWrite
  <2>1. current[1] \in Seq(RowKinds) /\ BeginWrite(reader.place, current[1])
    BY <1>4 DEF StartWrite, CommandTyped
  <2>. QED  BY <2>1, BeginWriteKeeps
<1>5. CASE CompleteWrite
  BY <1>5, EndWriteKeeps DEF CompleteWrite
<1>6. CASE StartFinish
  BY <1>6, BeginFinishKeeps DEF StartFinish
<1>7. CASE CompleteFinish
  BY <1>7, EndFinishKeeps DEF CompleteFinish
<1>8. CASE CloseDelivery
  <2>1. /\ UNCHANGED <<writer, layers, call, batch, limitVars, acknowledged, backendVars>>
        /\ destination' \subseteq destination
    BY <1>8 DEF CloseDelivery
  <2>. QED  BY <2>1, WriterLeft DEF limitVars
<1>9. CASE Unwind
  <2>1. /\ writer' \in {writer, "closed"} /\ call' = "idle" /\ reserved' = 0
        /\ UNCHANGED <<layers, batch, layer_rows, input_totals, failed, committed, acknowledged, destination,
                       backendVars>>
    BY <1>9 DEF Unwind
  <2>. QED  BY <2>1, WriterLeft
<1>10. CASE LibraryCall
  <2>1. CASE \E count \in 1 .. 2 : Create(count)
    BY <2>1, CreateKeeps
  <2>2. CASE \E layer \in 1 .. 2, total \in 0 .. 2 : DeclareTotal(layer, total)
    BY <2>2, DeclareKeeps
  <2>3. CASE \E layer \in 1 .. 2, content \in Batches : BeginWrite(layer, content)
    <3>1. PICK layer \in 1 .. 2, content \in Batches : BeginWrite(layer, content)
      BY <2>3
    <3>2. content \in Seq(RowKinds)
      BY ConversionAssumption
    <3>. QED  BY <3>1, <3>2, BeginWriteKeeps
  <2>4. CASE EndWrite \/ BeginFinish \/ EndFinish \/ Drop
    BY <2>4, EndWriteKeeps, BeginFinishKeeps, EndFinishKeeps, DropKeeps
  <2>. QED  BY <1>10, <2>1, <2>2, <2>3, <2>4 DEF LibraryCall
<1>. QED
  <2>1. CASE PrepareDelivery \/ OpenSource \/ SelectLayers \/ NextBatch \/ WriteDocuments \/ ReadStream
             \/ Control \/ Succeed \/ Panic \/ UNCHANGED conversionVars
    BY <1>1, <2>1 DEF PrepareDelivery, OpenSource, SelectLayers, NextBatch, WriteDocuments, ReadStream,
       Control, Succeed, Panic, conversionVars, limitedVars
  <2>2. CASE OpenReader \/ EndReader \/ Signal \/ Halt
    BY <1>1, <2>2 DEF OpenReader, EndReader, Signal, Halt
  <2>. QED  BY <1>2, <1>3, <1>4, <1>5, <1>6, <1>7, <1>8, <1>9, <1>10, <2>1, <2>2 DEF CommandNext, CommandStep, Ended

-----------------------------------------------------------------------------
(* Leases, staging and destination from phase to phase *)

LEMMA HeldInit ==
  ASSUME CommandInit
  PROVE  Held
BY DEF CommandInit, LimitedInit, Held, NoReader, Slot, Starting, Reading, Sinking, Answering, Streamed

LEMMA HeldKept ==
  ASSUME CommandTyped, WriterInv, Held, [CommandNext]_conversionVars
  PROVE  Held'
<1>0. /\ writer \in {"none", "open", "closed"} /\ reader.open \in BOOLEAN
      /\ destination # {} => writer = "closed"
      /\ phase = "library" <=> host = "library"
  BY DEF CommandTyped, WriterInv, WriterTyped, Published
<1>. USE DEF Starting, Reading, Sinking, Answering, Streamed, Proceed, Fail, commandVars, hostVars, Slot
<1>1. CASE OpenSource
  BY <1>0, <1>1 DEF Held, OpenSource, limitedVars, writerVars, CommandTyped
<1>2. CASE SelectLayers
  BY <1>0, <1>2 DEF Held, SelectLayers, limitedVars, writerVars, CommandTyped
<1>3. CASE CreateSink
  <2>1. /\ phase = "create" /\ Create(Len(selected)) /\ writer = "none" /\ ~ reader.open
        /\ phase' = (IF result' = "ok" THEN "reader" ELSE "failing")
        /\ UNCHANGED <<host, command, reader, private, reply>>
    BY <1>3 DEF CreateSink, Held
  <2>2. /\ UNCHANGED destination
        /\ \/ writer' = "open" /\ in_use' = in_use + 1 /\ result' = "ok"
           \/ writer' = "closed" /\ in_use' = in_use /\ result' # "ok"
    BY <2>1 DEF Create, Return
  <2>. QED  BY <1>0, <2>1, <2>2 DEF Held, CommandTyped
<1>4. CASE OpenReader
  <2>1. /\ phase = "reader" /\ ~ reader.open
        /\ UNCHANGED <<writer, destination, host, command, private, reply>>
        /\ \/ reader'.open = TRUE /\ in_use' = in_use + 1 /\ phase' = "first"
           \/ UNCHANGED <<reader, in_use>> /\ phase' = "failing"
    BY <1>4 DEF OpenReader, writerVars, Held
  <2>2. CASE phase' = "failing"
    BY <1>0, <2>1, <2>2 DEF Held
  <2>3. CASE phase' = "first"
    BY <1>0, <2>1, <2>3 DEF Held, CommandTyped
  <2>. QED  BY <2>1, <2>2, <2>3
<1>5. CASE NextBatch
  <2>1. /\ phase \in {"first", "next"} /\ phase' \in Reading \cup {"failing"}
        /\ reader'.open = reader.open
        /\ UNCHANGED <<writer, in_use, destination, host, command, private, reply>>
    BY <1>5 DEF NextBatch, limitedVars, writerVars, CommandTyped
  <2>. QED  BY <1>0, <2>1 DEF Held
<1>6. CASE Declare
  <2>1. /\ phase = "declare" /\ phase' \in {"failing", "reader_end", "write"}
        /\ UNCHANGED <<writer, in_use, destination, reader, host, command, private, reply>>
    BY <1>6 DEF Declare, DeclareTotal
  <2>. QED  BY <1>0, <2>1 DEF Held
<1>7. CASE StartWrite
  <2>1. /\ phase = "write" /\ phase' \in {"failing", "writing"}
        /\ UNCHANGED <<writer, in_use, destination, reader, host, command, private, reply>>
    BY <1>7 DEF StartWrite, BeginWrite
  <2>. QED  BY <1>0, <2>1 DEF Held
<1>8. CASE CompleteWrite
  <2>1. /\ phase = "writing" /\ phase' \in {"failing", "next"}
        /\ UNCHANGED <<writer, in_use, destination, reader, host, command, private, reply>>
    BY <1>8 DEF CompleteWrite, EndWrite
  <2>. QED  BY <1>0, <2>1 DEF Held
<1>9. CASE EndReader
  <2>1. /\ phase = "reader_end" /\ reader.open /\ ~ reader'.open /\ in_use' = in_use - 1
        /\ phase' = (IF command = "count" THEN "documents"
                     ELSE IF reader.place < Len(selected) THEN "reader" ELSE "finish")
        /\ UNCHANGED <<writer, destination, host, command, private, reply>>
    BY <1>9 DEF EndReader, writerVars, Held, CommandTyped
  <2>. QED  BY <1>0, <2>1 DEF Held
<1>10. CASE StartFinish
  <2>1. /\ phase = "finish" /\ ~ reader.open /\ writer = "open"
        /\ UNCHANGED <<destination, reader, host, command, private, reply>>
        /\ \/ UNCHANGED <<writer, in_use>> /\ phase' \in {"finishing", "failing"}
           \/ writer' = "closed" /\ in_use' = in_use - 1 /\ phase' \in {"failing"}
    BY <1>10 DEF StartFinish, BeginFinish, Close, Return, Held
  <2>. QED  BY <1>0, <2>1 DEF Held
<1>11. CASE CompleteFinish
  <2>1. /\ phase = "finishing" /\ ~ reader.open /\ writer = "open"
        /\ writer' = "closed" /\ in_use' = in_use - 1
        /\ phase' = (IF result' = "ok" THEN "documents" ELSE "failing")
        /\ result' # "ok" => UNCHANGED destination
        /\ UNCHANGED <<reader, host, command, private, reply>>
    BY <1>11 DEF CompleteFinish, EndFinish, FinishPublishes, FinishFails, Close, Return, Held
  <2>. QED  BY <1>0, <2>1 DEF Held, CommandTyped
<1>12. CASE WriteDocuments
  BY <1>0, <1>12 DEF Held, WriteDocuments, limitedVars, writerVars
<1>13. CASE ReadStream
  <2>1. /\ phase = "stream" /\ phase' \in {"closing", "failing"}
        /\ UNCHANGED <<writer, in_use, destination, reader, host, command, private, reply>>
    BY <1>13 DEF ReadStream, limitedVars, writerVars
  <2>. QED  BY <1>0, <2>1 DEF Held
<1>14. CASE Control
  <2>1. /\ phase = "control" /\ phase' \in {"succeeding", "failing"}
        /\ UNCHANGED <<writer, in_use, destination, reader, host, command, private, reply>>
    BY <1>14 DEF Control, limitedVars, writerVars
  <2>. QED  BY <1>0, <2>1 DEF Held
<1>15. CASE Succeed
  <2>1. /\ phase = "succeeding" /\ phase' = "answered" /\ reply' = "success"
        /\ UNCHANGED <<writer, in_use, destination, reader, host, command, private>>
    BY <1>15 DEF Succeed, Answer, limitedVars, writerVars
  <2>. QED  BY <1>0, <2>1 DEF Held
<1>16. CASE Unwind
  <2>1. /\ phase = "failing" /\ ~ reader'.open
        /\ IF private THEN phase' = "closing" /\ reply' = reply
                      ELSE phase' = "answered" /\ reply' = "error"
        /\ writer' = (IF writer = "open" THEN "closed" ELSE writer)
        /\ in_use' = in_use - Slot(reader.open) - Slot(writer = "open")
        /\ UNCHANGED <<destination, host, command, private>>
    BY <1>16 DEF Unwind, Answer, DropReaderAndWriter, CommandTyped
  <2>2. host = "cli" => destination = {}
    BY <2>1 DEF Held
  <2>3. host # "library" => in_use' = 0
    BY <1>0, <2>1 DEF Held
  <2>. QED  BY <1>0, <2>1, <2>2, <2>3 DEF Held
<1>17. CASE Panic
  <2>1. /\ phase \in {"start", "first", "next", "writing"} /\ phase' = "failing" /\ host = "cli"
        /\ UNCHANGED <<writer, in_use, destination, reader, host, command, private, reply>>
    BY <1>17 DEF Panic, limitedVars, writerVars
  <2>2. destination = {} /\ ~ private
    BY <2>1 DEF Held
  <2>. QED  BY <1>0, <2>1, <2>2 DEF Held
<1>18. CASE Signal
  <2>1. /\ phase \notin {"answered", "killed", "library"} /\ host = "cli"
        /\ UNCHANGED <<writer, in_use, destination, reader, host, command, private>>
        /\ \/ UNCHANGED <<phase, reply>>
           \/ phase' = "killed" /\ reply' = "killed"
    BY <1>18 DEF Signal, Running, writerVars
  <2>. QED  BY <1>0, <2>1 DEF Held
<1>19. CASE Halt
  BY <1>0, <1>19 DEF Held, Halt, writerVars
<1>20. CASE LibraryCall
  <2>1. phase = "library" /\ UNCHANGED <<commandVars, phase, reader, hostVars>>
    BY <1>20 DEF LibraryCall
  <2>. QED  BY <1>0, <2>1 DEF Held, CommandTyped
<1>21. CASE UNCHANGED conversionVars
  BY <1>21 DEF conversionVars, limitedVars, writerVars, Held
<1>22. CASE PrepareDelivery
  <2>1. /\ phase = "prepare"
        /\ UNCHANGED <<writer, in_use, destination, reader, host, command, reply>>
        /\ \/ private' = TRUE /\ phase' = "start"
           \/ UNCHANGED private /\ phase' = "failing"
    BY <1>22 DEF PrepareDelivery, limitedVars, writerVars
  <2>2. Streamed
    BY <1>0, <2>1 DEF Held
  <2>. QED  BY <1>0, <2>1, <2>2 DEF Held
<1>23. CASE CloseDelivery
  <2>1. /\ phase = "closing" /\ destination' \subseteq destination
        /\ UNCHANGED <<writer, in_use, reader, host, command>>
        /\ \/ private' = FALSE /\ destination' = {} /\ phase' = "control" /\ UNCHANGED reply
           \/ private' = FALSE /\ destination' = {} /\ phase' = "answered" /\ reply' = "error"
           \/ UNCHANGED private /\ phase' = "answered" /\ reply' = "unremoved"
    BY <1>23 DEF CloseDelivery, Answer
  <2>2. host = "cli" => destination = {}
    BY <2>1 DEF Held
  <2>. QED  BY <1>0, <2>1, <2>2 DEF Held
<1>. QED  BY <1>1, <1>2, <1>3, <1>4, <1>5, <1>6, <1>7, <1>8, <1>9, <1>10, <1>11, <1>12, <1>13, <1>14,
             <1>15, <1>16, <1>17, <1>18, <1>19, <1>20, <1>21, <1>22, <1>23
             DEF CommandNext, CommandStep, Ended

LEMMA HeldImplies ==
  ASSUME CommandTyped, Held
  PROVE  NothingIsLeft
<1>1. phase = "answered" => host # "library" /\ ~ reader.open /\ writer # "open"
  BY DEF CommandTyped, Held, Reading, Sinking
<1>2. phase = "answered" => in_use = 0
  BY <1>1 DEF Held, Slot
<1>3. reply = "error" /\ host = "cli" => destination = {}
  BY DEF Held
<1>4. Streamed /\ reply \in {"success", "error"} => ~ private /\ destination = {}
  BY DEF Held
<1>. QED  BY <1>1, <1>2, <1>3, <1>4 DEF NothingIsLeft

-----------------------------------------------------------------------------
(* What has been acknowledged is what has been read *)

RowSet == [part : {"row"}, layer : Nat, row : RowKinds]

LEMMA PlanFrozen ==
  ASSUME UNCHANGED <<source, selected>>
  PROVE  /\ LayerOf(reader.place)' = LayerOf(reader.place')
         /\ LayerParts(reader.place)' = LayerParts(reader.place')
         /\ Upto(reader.place)' = Upto(reader.place')
         /\ Upto(reader.place - 1)' = Upto(reader.place' - 1)
         /\ Upto(Len(selected))' = Upto(Len(selected))
BY DEF Upto, LayerParts, LayerOf

LEMMA PartsTyped ==
  ASSUME CommandTyped, NEW p \in 1 .. Len(selected)
  PROVE  /\ LayerParts(p) \in Seq(Seq(RowSet)) /\ Len(LayerParts(p)) = Len(LayerOf(p))
         /\ Len(LayerOf(p)) \in Nat
         /\ \A n \in 1 .. Len(LayerOf(p)) : LayerParts(p)[n] = RowParts(p, LayerOf(p)[n])
<1>1. selected \in Seq(1 .. Len(source)) /\ source \in Seq(Seq(Seq(RowKinds))) /\ p \in Nat
  BY DEF CommandTyped
<1>2. selected[p] \in 1 .. Len(source)
  BY <1>1
<1>3. LayerOf(p) \in Seq(Seq(RowKinds))
  BY <1>1, <1>2 DEF LayerOf
<1>4. Len(LayerOf(p)) \in Nat /\ \A n \in 1 .. Len(LayerOf(p)) : LayerOf(p)[n] \in Seq(RowKinds)
  BY <1>3
<1>5. ASSUME NEW n \in 1 .. Len(LayerOf(p)) PROVE RowParts(p, LayerOf(p)[n]) \in Seq(RowSet)
  <2>. DEFINE L == [part : {"row"}, layer : {p}, row : RowKinds]
  <2>1. RowParts(p, LayerOf(p)[n]) \in Seq(L)
    BY <1>4, RowPartsTyped
  <2>2. L \subseteq RowSet
    BY <1>1 DEF RowSet
  <2>. HIDE DEF L
  <2>. QED  BY <2>1, <2>2, SeqMonotonic
<1>. HIDE DEF RowSet
<1>. QED  BY <1>4, <1>5 DEF LayerParts

LEMMA UptoNone == Upto(0) = << >>
<1>1. [i \in 1 .. 0 |-> LayerParts(i)] = << >>
  OBVIOUS
<1>. QED  BY <1>1, FlattenEmpty DEF Upto

LEMMA UptoNext ==
  ASSUME CommandTyped, NEW p \in 1 .. Len(selected)
  PROVE  /\ Upto(p - 1) \in Seq(Seq(RowSet))
         /\ Upto(p) = Upto(p - 1) \o LayerParts(p)
<1>. DEFINE before == [i \in 1 .. p - 1 |-> LayerParts(i)]
            all == [i \in 1 .. p |-> LayerParts(i)]
<1>1. Len(selected) \in Nat /\ p \in Nat /\ p - 1 \in Nat
  BY DEF CommandTyped
<1>2. \A i \in 1 .. p : LayerParts(i) \in Seq(Seq(RowSet))
  BY <1>1, PartsTyped
<1>3. before \in Seq(Seq(Seq(RowSet))) /\ Len(before) = p - 1
  BY <1>1, <1>2
<1>4. all = Append(before, LayerParts(p))
  BY <1>1
<1>5. Upto(p - 1) = FlattenSeq(before) /\ Upto(p) = FlattenSeq(all)
  BY DEF Upto
<1>6. LayerParts(p) \in Seq(Seq(RowSet))
  BY <1>1, <1>2
<1>. HIDE DEF before, all
<1>7. FlattenSeq(Append(before, LayerParts(p))) = FlattenSeq(before) \o LayerParts(p)
  BY <1>3, <1>6, FlattenAppend
<1>8. FlattenSeq(before) \in Seq(Seq(RowSet))
  BY <1>3, FlattenTyped
<1>. QED  BY <1>4, <1>5, <1>7, <1>8

\* One batch more of a layer, none of it, and all of it.
LEMMA TakeNext ==
  ASSUME NEW S, NEW a \in Seq(S), NEW s \in Seq(S)
  PROVE  /\ a \o SubSeq(s, 1, 0) = a
         /\ SubSeq(s, 1, Len(s)) = s
         /\ \A g \in 1 .. Len(s) :
              a \o SubSeq(s, 1, g) = Append(a \o SubSeq(s, 1, g - 1), s[g])
<1>1. SubSeq(s, 1, 0) = << >> /\ a \o << >> = a
  OBVIOUS
<1>2. ASSUME NEW g \in 1 .. Len(s)
      PROVE  a \o SubSeq(s, 1, g) = Append(a \o SubSeq(s, 1, g - 1), s[g])
  <2>. DEFINE b == SubSeq(s, 1, g - 1)
  <2>1. SubSeq(s, 1, g) = Append(b, s[g]) /\ b \in Seq(S) /\ s[g] \in S
    OBVIOUS
  <2>. HIDE DEF b
  <2>2. a \o Append(b, s[g]) = Append(a \o b, s[g])
    BY <2>1, ConcatAppend
  <2>. QED  BY <2>1, <2>2 DEF b
<1>. QED  BY <1>1, <1>2

LEMMA ProgressInit ==
  ASSUME CommandInit
  PROVE  Progress
BY DEF CommandInit, LimitedInit, Progress, NoReader, Starting, Reading, Sinking, Answering, Streamed

\* A command that stopped promises nothing but that no stream is in memory
\* while its private directory is there.
LEMMA Stopping ==
  ASSUME phase' = "failing" \/ phase' = "killed" \/ phase' = "answered", reply' # "success",
         phase' = "failing" => ~ private' \/ payload' = {}
  PROVE  Progress'
BY DEF Progress, Starting, Reading, Answering

\* The steps that move a batch from the reader to the writer.
LEMMA TransferProgress ==
  ASSUME CommandTyped, WriterInv, Held, Progress, command \in {"convert", "write", "deliver"},
         OpenReader \/ NextBatch \/ Declare \/ StartWrite \/ CompleteWrite \/ EndReader
  PROVE  Progress'
<1>. DEFINE p == reader.place
            given == reader.given
            batches == LayerOf(p)
            parts == LayerParts(p)
<1>1. /\ UNCHANGED <<host, command, source, selected, private, payload, reply>>
      /\ phase \in Reading \cup {"reader"} /\ reply = "none" /\ payload = {}
      /\ phase' \in Reading \cup {"reader", "finish", "failing"}
  BY DEF OpenReader, NextBatch, Declare, StartWrite, CompleteWrite, EndReader, commandVars, hostVars,
         Proceed, Fail, Reading, Held, Progress
<1>2. /\ LayerOf(reader.place)' = LayerOf(reader.place')
      /\ LayerParts(reader.place)' = LayerParts(reader.place')
      /\ Upto(reader.place)' = Upto(reader.place')
      /\ Upto(reader.place - 1)' = Upto(reader.place' - 1)
      /\ Upto(Len(selected))' = Upto(Len(selected))
  BY <1>1, PlanFrozen
<1>3. CASE phase' = "failing"
  BY <1>1, <1>3, Stopping
<1>4. /\ reader \in [place : Nat, given : Nat, open : BOOLEAN] /\ Len(selected) \in Nat
      /\ phase = "reader" => p < Len(selected)
      /\ phase \in Reading => p \in 1 .. Len(selected)
      /\ current \in Seq(Seq(RowKinds)) /\ p \in Nat /\ given \in Nat
  BY DEF CommandTyped
<1>5. phase \in Reading =>
        /\ Upto(p - 1) \in Seq(Seq(RowSet)) /\ parts \in Seq(Seq(RowSet))
        /\ Upto(p) = Upto(p - 1) \o parts
        /\ Len(parts) = Len(batches) /\ Len(batches) \in Nat
        /\ \A n \in 1 .. Len(batches) : parts[n] = RowParts(p, batches[n])
  BY <1>4, PartsTyped, UptoNext
<1>6. phase \in Reading =>
        /\ given \in 0 .. Len(batches)
        /\ acknowledged = Upto(p - 1) \o SubSeq(parts, 1, Taken)
        /\ current # << >> => given > 0 /\ current = <<batches[given]>>
        /\ phase \in {"first", "next", "reader_end"} => current = << >>
        /\ phase = "first" => given = 0
        /\ phase \in {"declare", "reader_end"} /\ current = << >> => given = Len(batches)
        /\ phase = "writing" => batch.layer = p /\ batch.rows = current[1]
  BY DEF Progress
<1>. HIDE DEF batches, parts
<1>7. CASE OpenReader /\ phase' # "failing"
  <2>1. /\ phase = "reader" /\ phase' = "first" /\ reader'.place = p + 1 /\ reader'.given = 0
        /\ UNCHANGED <<acknowledged, current>>
    BY <1>7 DEF OpenReader, Proceed, Fail, writerVars
  <2>2. acknowledged = Upto(p) /\ current = << >>
    BY <2>1 DEF Progress
  <2>3. p + 1 \in 1 .. Len(selected) /\ (p + 1) - 1 = p
    BY <1>4, <2>1
  <2>4. Upto(p) \in Seq(Seq(RowSet)) /\ LayerParts(p + 1) \in Seq(Seq(RowSet))
        /\ Len(LayerOf(p + 1)) \in Nat
    <3>. DEFINE next == p + 1
    <3>1. next \in 1 .. Len(selected) /\ next - 1 = p
      BY <2>3
    <3>. HIDE DEF next
    <3>2. Upto(next - 1) \in Seq(Seq(RowSet)) /\ LayerParts(next) \in Seq(Seq(RowSet))
          /\ Len(LayerOf(next)) \in Nat
      BY <3>1, PartsTyped, UptoNext
    <3>. QED  BY <3>1, <3>2 DEF next
  <2>5. Upto(p) \o SubSeq(LayerParts(p + 1), 1, 0) = Upto(p)
    BY <2>4, TakeNext
  <2>6. Taken' = 0
    BY <2>1, <2>2 DEF Taken
  <2>7. acknowledged' = Upto(reader'.place - 1) \o SubSeq(LayerParts(reader'.place), 1, Taken')
    BY <2>1, <2>2, <2>3, <2>5, <2>6
  <2>8. reader'.given \in 0 .. Len(LayerOf(reader'.place)) /\ current' = << >>
    BY <2>1, <2>2, <2>4
  <2>. QED  BY <1>1, <1>2, <2>1, <2>7, <2>8 DEF Progress, Starting, Reading, Answering
<1>8. CASE NextBatch /\ phase' # "failing"
  <2>1. /\ phase \in {"first", "next"} /\ phase \in Reading /\ current = << >> /\ Taken = given
        /\ UNCHANGED acknowledged
    BY <1>6, <1>8 DEF NextBatch, limitedVars, writerVars, Reading, Taken
  <2>2. CASE given < Len(batches) /\ current' = <<batches[given + 1]>>
    <3>1. reader' = [reader EXCEPT !.given = @ + 1]
      BY <1>8, <2>2 DEF NextBatch, Fail
    <3>2. reader'.place = p /\ reader'.given = given + 1
      BY <1>4, <3>1, ReaderMoves
    <3>3. phase' \in {"declare", "write"}
      BY <1>8, <2>2 DEF NextBatch, Fail, Proceed
    <3>4. current' # << >> /\ Taken' = given
      <4>1. current' # << >>
        BY <2>2
      <4>2. (given + 1) - 1 = given
        BY <1>4
      <4>. QED  BY <3>2, <4>1, <4>2 DEF Taken
    <3>5. given + 1 \in 0 .. Len(batches) /\ given + 1 > 0
      BY <1>4, <1>5, <2>1, <2>2
    <3>. QED  BY <1>1, <1>2, <1>6, <2>1, <2>2, <3>2, <3>3, <3>4, <3>5 DEF Progress, Starting, Reading, Answering, batches, parts
  <2>3. CASE given = Len(batches) /\ current' = << >>
    <3>1. UNCHANGED reader /\ phase' \in {"declare", "reader_end"}
      BY <1>8, <2>3 DEF NextBatch, Fail, Proceed
    <3>2. Taken' = given
      BY <2>3, <3>1 DEF Taken
    <3>. QED  BY <1>1, <1>2, <1>6, <2>1, <2>3, <3>1, <3>2 DEF Progress, Starting, Reading, Answering, batches, parts
  <2>. QED  BY <1>8, <2>2, <2>3 DEF NextBatch, Fail, batches
<1>9. CASE Declare /\ phase' # "failing"
  <2>1. /\ phase = "declare" /\ phase \in Reading
        /\ phase' = (IF current = << >> THEN "reader_end" ELSE "write")
        /\ UNCHANGED <<acknowledged, reader, current>>
    BY <1>9 DEF Declare, DeclareTotal, Proceed, Fail, Reading
  <2>2. Taken' = Taken
    BY <2>1 DEF Taken
  <2>. QED  BY <1>1, <1>2, <1>6, <2>1, <2>2 DEF Progress, Starting, Reading, Answering, batches, parts
<1>10. CASE StartWrite /\ phase' # "failing"
  <2>1. /\ phase = "write" /\ phase \in Reading /\ phase' = "writing" /\ current # << >>
        /\ UNCHANGED <<acknowledged, reader, current>>
    BY <1>10 DEF StartWrite, BeginWrite, Proceed, Fail, Reading, CommandTyped
  <2>2. batch'.layer = p /\ batch'.rows = current[1]
    <3>1. BeginWrite(p, current[1]) /\ call' = "write"
      BY <1>10 DEF StartWrite, Fail
    <3>2. WriteAccounted(p, current[1])
      BY <3>1 DEF BeginWrite, WriteStopped, WriteSpoiled, WriteRefused, Return
    <3>. QED  BY <3>2 DEF WriteAccounted
  <2>3. Taken' = Taken
    BY <2>1 DEF Taken
  <2>. QED  BY <1>1, <1>2, <1>6, <2>1, <2>2, <2>3 DEF Progress, Starting, Reading, Answering, batches, parts
<1>11. CASE CompleteWrite /\ phase' # "failing"
  <2>1. /\ phase = "writing" /\ phase \in Reading /\ phase' = "next" /\ current # << >> /\ current' = << >>
        /\ EndWrite /\ result' = "ok" /\ UNCHANGED reader
    BY <1>11 DEF CompleteWrite, Proceed, Fail, Reading, CommandTyped
  <2>2. acknowledged' = Append(acknowledged, BatchParts)
    BY <2>1, EndWriteKeeps
  <2>3. given \in 1 .. Len(batches) /\ BatchParts = parts[given] /\ Taken = given - 1 /\ Taken' = given
    <3>1. given \in 1 .. Len(batches) /\ current = <<batches[given]>>
          /\ batch.layer = p /\ batch.rows = current[1]
      BY <1>4, <1>5, <1>6, <2>1
    <3>. QED  BY <1>5, <2>1, <3>1 DEF BatchParts, Taken
  <2>4. Append(Upto(p - 1) \o SubSeq(parts, 1, given - 1), parts[given])
          = Upto(p - 1) \o SubSeq(parts, 1, given)
    <3>1. Upto(p - 1) \in Seq(Seq(RowSet)) /\ parts \in Seq(Seq(RowSet)) /\ given \in 1 .. Len(parts)
      BY <1>5, <2>1, <2>3
    <3>. HIDE DEF p, given
    <3>. QED  BY <3>1, TakeNext
  <2>5. acknowledged' = Upto(p - 1) \o SubSeq(parts, 1, given)
    BY <1>6, <2>1, <2>2, <2>3, <2>4
  <2>. QED  BY <1>1, <1>2, <1>6, <2>1, <2>3, <2>5 DEF Progress, Starting, Reading, Answering, batches, parts
<1>12. CASE EndReader /\ phase' # "failing"
  <2>1. /\ phase = "reader_end" /\ phase \in Reading /\ current = << >> /\ current' = << >>
        /\ reader'.place = p /\ UNCHANGED acknowledged
        /\ phase' = (IF p < Len(selected) THEN "reader" ELSE "finish")
    BY <1>4, <1>6, <1>12 DEF EndReader, Proceed, Fail, Reading, writerVars
  <2>2. Taken = Len(parts)
    BY <1>5, <1>6, <2>1 DEF Taken
  <2>3. acknowledged = Upto(p)
    BY <1>5, <1>6, <2>1, <2>2, TakeNext
  <2>4. phase' = "finish" => p = Len(selected)
    BY <1>4, <2>1
  <2>. QED  BY <1>1, <1>2, <2>1, <2>3, <2>4 DEF Progress, Starting, Reading, Answering
<1>. QED  BY <1>3, <1>7, <1>8, <1>9, <1>10, <1>11, <1>12

\* After success the one document is the whole of what was selected.
LEMMA WholeIsAll ==
  DocumentOf(Upto(Len(selected))) = Whole
BY DEF Upto, LayerParts, Whole

LEMMA ProgressStays ==
  ASSUME Progress,
         UNCHANGED <<acknowledged, batch, current, reader, format, private, payload, reply, phase, host,
                     command, source, selected, destination>>
  PROVE  Progress'
<1>1. /\ LayerOf(reader.place)' = LayerOf(reader.place)
      /\ LayerParts(reader.place)' = LayerParts(reader.place)
      /\ Upto(reader.place)' = Upto(reader.place)
      /\ Upto(reader.place - 1)' = Upto(reader.place - 1)
      /\ Upto(Len(selected))' = Upto(Len(selected))
  BY PlanFrozen
<1>2. DocumentOf(acknowledged)' = DocumentOf(acknowledged) /\ Taken' = Taken
  BY DEF DocumentOf, Framed, HeaderOf, Taken
<1>3. Whole' = Whole
  BY DEF Whole, DocumentOf, Framed, HeaderOf, LayerOf
<1>. QED  BY <1>1, <1>2, <1>3 DEF Progress, Starting, Reading, Answering

LEMMA ProgressKept ==
  ASSUME CommandTyped, WriterInv, Held, Progress, [CommandNext]_conversionVars
  PROVE  Progress'
<1>. SUFFICES ASSUME command' \in {"convert", "write", "deliver"}
              PROVE  Progress'
  BY DEF Progress
<1>0. /\ reply # "none" => phase \in {"answered", "killed"}
      /\ host \in {"cli", "runtime", "library"} /\ phase = "library" <=> host = "library"
      /\ command' = command => command \in {"convert", "write", "deliver"}
  BY DEF CommandTyped, Held
<1>. USE DEF Proceed, Fail, commandVars, hostVars
<1>1. CASE OpenSource
  <2>1. /\ phase = "start" /\ phase' \in {"select", "failing"} /\ command' = command
        /\ UNCHANGED <<acknowledged, current, private, payload, reply, host>>
    BY <1>1 DEF OpenSource, limitedVars, writerVars
  <2>. QED  BY <1>0, <2>1 DEF Progress, Starting, Reading, Answering
<1>2. CASE SelectLayers
  <2>1. /\ phase = "select" /\ phase' \in {"create", "failing"}
        /\ UNCHANGED <<acknowledged, current, private, payload, reply, host, command>>
    BY <1>2 DEF SelectLayers, limitedVars, writerVars
  <2>. QED  BY <1>0, <2>1 DEF Progress, Starting, Reading, Answering
<1>3. CASE CreateSink
  <2>1. /\ phase = "create" /\ phase' \in {"reader", "failing"}
        /\ UNCHANGED <<acknowledged, current, private, payload, reply, host, command, source, selected, reader>>
    BY <1>3 DEF CreateSink, Create
  <2>2. Upto(reader.place)' = Upto(reader.place')
    BY <2>1, PlanFrozen
  <2>3. reader.place = 0
    BY <2>1 DEF CommandTyped, Starting
  <2>4. acknowledged' = Upto(reader.place)'
    BY <1>0, <2>1, <2>2, <2>3, UptoNone DEF Progress, Starting
  <2>. QED  BY <1>0, <2>1, <2>4 DEF Progress, Starting, Reading, Answering
<1>4. CASE OpenReader \/ NextBatch \/ Declare \/ StartWrite \/ CompleteWrite \/ EndReader
  <2>1. command' = command
    BY <1>4 DEF OpenReader, NextBatch, Declare, StartWrite, CompleteWrite, EndReader
  <2>. QED  BY <1>0, <1>4, <2>1, TransferProgress
<1>5. CASE StartFinish
  <2>1. /\ phase = "finish" /\ phase' \in {"finishing", "failing"}
        /\ UNCHANGED <<acknowledged, private, payload, reply, host, command, source, selected>>
    BY <1>5 DEF StartFinish, BeginFinish
  <2>2. Upto(Len(selected))' = Upto(Len(selected))
    BY <2>1, PlanFrozen
  <2>. QED  BY <1>0, <2>1, <2>2 DEF Progress, Starting, Reading, Answering
<1>6. CASE CompleteFinish
  <2>1. /\ phase = "finishing" /\ phase' = (IF result' = "ok" THEN "documents" ELSE "failing")
        /\ EndFinish
        /\ UNCHANGED <<acknowledged, private, payload, reply, host, command, source, selected>>
    BY <1>6 DEF CompleteFinish, EndFinish
  <2>2. Upto(Len(selected))' = Upto(Len(selected))
    BY <2>1, PlanFrozen
  <2>3. phase' = "documents" => destination' = {DocumentOf(acknowledged)'}
    BY <2>1, EndFinishKeeps
  <2>. QED  BY <1>0, <2>1, <2>2, <2>3 DEF Progress, Starting, Reading, Answering
<1>7. CASE WriteDocuments \/ ReadStream \/ Control
  <2>1. /\ phase \in Answering
        /\ phase' \in (Answering \ {"documents"}) \cup {"closing", "failing"}
        /\ UNCHANGED <<acknowledged, format, private, reply, host, command, source, selected, destination>>
    BY <1>7 DEF WriteDocuments, ReadStream, Control, limitedVars, writerVars, backendVars, Answering
  <2>2. Upto(Len(selected))' = Upto(Len(selected)) /\ DocumentOf(acknowledged)' = DocumentOf(acknowledged)
    <3>1. DocumentOf(acknowledged)' = DocumentOf(acknowledged)
      BY <2>1 DEF DocumentOf, Framed, HeaderOf
    <3>. QED  BY <2>1, <3>1, PlanFrozen
  <2>3. /\ acknowledged = Upto(Len(selected)) /\ destination \cup payload = {DocumentOf(acknowledged)}
        /\ phase \in {"documents", "stream"} => payload = {}
        /\ phase \in {"control", "succeeding"} => ~ private
    BY <1>0, <2>1 DEF Progress, Held, Answering
  <2>4. /\ phase' # "closing" => payload' = payload
        /\ phase' = "closing" => payload' = {DocumentOf(acknowledged)}
        /\ phase' = "stream" => payload' = {}
        /\ phase' = "failing" => ~ private \/ payload' = {}
    <3>1. CASE WriteDocuments
      BY <2>3, <3>1 DEF WriteDocuments
    <3>2. CASE ReadStream
      BY <2>3, <3>2 DEF ReadStream
    <3>3. CASE Control
      BY <2>3, <3>3 DEF Control
    <3>. QED  BY <1>7, <3>1, <3>2, <3>3
  <2>. QED  BY <1>0, <2>1, <2>2, <2>3, <2>4 DEF Progress, Starting, Reading, Answering
<1>8. CASE Succeed
  <2>1. /\ phase = "succeeding" /\ phase' = "answered"
        /\ UNCHANGED <<format, source, selected, destination, payload, command>>
    BY <1>8 DEF Succeed, Answer, limitedVars, writerVars, backendVars
  <2>2. acknowledged = Upto(Len(selected)) /\ destination \cup payload = {DocumentOf(acknowledged)}
    BY <1>0, <2>1 DEF Progress, Answering
  <2>3. destination \cup payload = {Whole}
    BY <2>2, WholeIsAll
  <2>4. Whole' = Whole
    BY <2>1 DEF Whole, DocumentOf, Framed, HeaderOf, LayerOf
  <2>5. destination' \cup payload' = {Whole'}
    BY <2>1, <2>3, <2>4
  <2>. QED  BY <2>1, <2>5 DEF Progress, Starting, Reading, Answering
<1>9. CASE Unwind
  <2>1. CASE private
    <3>1. phase = "failing" /\ phase' = "closing" /\ UNCHANGED <<payload, reply, command>>
      BY <1>9, <2>1 DEF Unwind
    <3>2. payload' = {} /\ reply' = "none"
      BY <1>0, <2>1, <3>1 DEF Progress
    <3>. QED  BY <3>1, <3>2 DEF Progress, Starting, Reading, Answering
  <2>2. CASE ~ private
    <3>1. phase' = "answered" /\ reply' = "error"
      BY <1>9, <2>2 DEF Unwind, Answer
    <3>. QED  BY <3>1, Stopping
  <2>. QED  BY <2>1, <2>2
<1>10. CASE Panic
  <2>1. phase' = "failing" /\ reply' = "none"
    BY <1>0, <1>10 DEF Panic
  <2>2. payload' = {}
    BY <1>0, <1>10 DEF Panic, Progress
  <2>. QED  BY <2>1, <2>2, Stopping
<1>11. CASE Signal \/ Halt
  <2>1. CASE phase' = "killed" /\ reply' = "killed"
    BY <2>1, Stopping
  <2>2. CASE UNCHANGED <<phase, reply>>
    <3>1. UNCHANGED <<acknowledged, batch, current, reader, format, private, payload, reply, phase, host,
                      command, source, selected, destination>>
      BY <1>11, <2>2 DEF Signal, Halt, writerVars, backendVars
    <3>. QED  BY <3>1, ProgressStays
  <2>. QED  BY <1>11, <2>1, <2>2 DEF Signal, Halt
<1>12. CASE LibraryCall
  <2>1. /\ phase = "library" /\ phase' = "library" /\ reply' = "none"
        /\ UNCHANGED <<private, payload, host, command>>
    BY <1>0, <1>12 DEF LibraryCall
  <2>. QED  BY <1>0, <2>1 DEF Progress, Starting, Reading, Answering
<1>13. CASE UNCHANGED conversionVars
  BY <1>13, ProgressStays DEF conversionVars, limitedVars, writerVars, backendVars
<1>14. CASE PrepareDelivery
  <2>1. /\ phase = "prepare" /\ phase' \in {"start", "failing"}
        /\ UNCHANGED <<acknowledged, current, payload, reply, command>>
    BY <1>14 DEF PrepareDelivery, limitedVars, writerVars
  <2>. QED  BY <1>0, <2>1 DEF Progress, Starting, Reading, Answering
<1>15. CASE CloseDelivery
  <2>1. phase = "closing" /\ reply = "none"
        /\ UNCHANGED <<acknowledged, format, payload, command, source, selected>>
    BY <1>0, <1>15 DEF CloseDelivery, backendVars
  <2>2. CASE phase' = "control" /\ payload # {} /\ destination' = {} /\ UNCHANGED reply
    <3>1. acknowledged = Upto(Len(selected)) /\ payload = {DocumentOf(acknowledged)}
      BY <1>0, <2>1, <2>2 DEF Progress
    <3>2. Upto(Len(selected))' = Upto(Len(selected))
      BY <2>1, PlanFrozen
    <3>3. DocumentOf(acknowledged)' = DocumentOf(acknowledged)
      BY <2>1 DEF DocumentOf, Framed, HeaderOf
    <3>. QED  BY <2>1, <2>2, <3>1, <3>2, <3>3 DEF Progress, Starting, Reading, Answering
  <2>3. CASE phase' = "answered" /\ reply' \in {"error", "unremoved"}
    BY <2>3, Stopping
  <2>. QED  BY <1>15, <2>2, <2>3 DEF CloseDelivery, Answer
<1>. QED  BY <1>1, <1>2, <1>3, <1>4, <1>5, <1>6, <1>7, <1>8, <1>9, <1>10, <1>11, <1>12, <1>13, <1>14, <1>15
          DEF CommandNext, CommandStep, Ended

-----------------------------------------------------------------------------
(* The theorems *)

CommandInv == CommandTyped /\ WriterInv /\ Held /\ Progress

LEMMA CommandInvHolds == CommandSpec => []CommandInv
<1>1. CommandInit => CommandInv
  BY TypedInit, WriterInit, HeldInit, ProgressInit DEF CommandInv
<1>2. CommandInv /\ [CommandNext]_conversionVars => CommandInv'
  BY TypedKept, WriterKept, HeldKept, ProgressKept DEF CommandInv
<1>. QED  BY <1>1, <1>2, PTL DEF CommandSpec

\* What becomes visible is a whole document of its format with exactly the
\* batches acknowledged and as many rows as were declared, and the rows charged
\* are the rows written, for every source, limit, caller and stop: the wrapper
\* of every writer and the ten backends below it.
THEOREM WriterTruthful == CommandSpec => []WriterIsTruthful
<1>1. CommandInv => WriterIsTruthful
  BY WriterInvImplies DEF CommandInv
<1>. QED  BY <1>1, CommandInvHolds, PTL

\* A command that answers success delivered all of what it selected, in order
\* and in one document: cmd_convert, cmd_write and cmd_read, on the command
\* line and in the runtime binding.
THEOREM SuccessComplete == CommandSpec => []SuccessIsComplete
<1>1. CommandInv => SuccessIsComplete
  BY DEF CommandInv, Progress, SuccessIsComplete
<1>. QED  BY <1>1, CommandInvHolds, PTL

\* After its answer a command holds no slot, reader or staging; the private
\* directory of the runtime is left only behind the error of its removal, and
\* the command line left no destination after an error.
THEOREM NothingLeft == CommandSpec => []NothingIsLeft
<1>1. CommandInv => NothingIsLeft
  BY HeldImplies DEF CommandInv
<1>. QED  BY <1>1, CommandInvHolds, PTL

=============================================================================
