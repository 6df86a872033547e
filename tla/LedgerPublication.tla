------------------------- MODULE LedgerPublication -------------------------
(***************************************************************************)
(* The task ledger on disk is a pair of files, the event stream and the    *)
(* snapshot derived from it.  publish_task_ledger_artifacts replaces both, *)
(* remove_task_ledger_artifacts deletes both; each file system call may    *)
(* fail, each failure is rolled back, the rollback's own calls may fail,   *)
(* and the process may be killed between any two calls.  The directory is  *)
(* reused: the next operation starts from whatever the last one left.      *)
(*                                                                         *)
(* A file's content is the run that wrote it, or Missing.  A call that     *)
(* fails changes nothing, except that a write may leave a partial file,    *)
(* whose content is Partial.                                               *)
(***************************************************************************)
EXTENDS Naturals

CONSTANT Runs,            \* how many runs may publish
         Missing, Partial \* the contents that are no run's

ASSUME RunConstants == Runs \in Nat /\ {Missing, Partial} \cap 1..Runs = {}

VARIABLES file,   \* content of the pair and of its staging files, by name
          prior,  \* the pair as the operation read it before touching it
          gone,   \* what remove_task_ledger_artifacts has deleted so far
          run,    \* how many runs have published
          pc      \* the next call of the operation, or how it ended

pairVars == <<file, prior, gone, run, pc>>

Pair   == {"events", "snapshot"}
Stage  == [f \in Pair |-> IF f = "events" THEN "events.tmp" ELSE "snapshot.tmp"]
Stages == {Stage[f] : f \in Pair}
Content == 1..Runs \cup {Missing, Partial}

Ended == {"idle", "published", "removed", "failed", "torn", "killed"}

PairInit == /\ file = [f \in Pair \cup Stages |-> Missing]
        /\ prior = [f \in Pair |-> Missing]
        /\ gone = {}
        /\ run = 0
        /\ pc = "idle"

Put(f, c) == file' = [file EXCEPT ![f] = c]

(* One call: at `from`, with effect A and then `to`, or failing into `err`. *)
At(from, to) == pc = from /\ pc' = to
Fails(from, err) == At(from, err) /\ UNCHANGED <<file, prior, gone, run>>

-----------------------------------------------------------------------------
(* publish_task_ledger_artifacts: read the prior pair and clear the        *)
(* staging files, stage both, then for each file delete and rename.        *)
BeginPublish ==
    /\ pc \in Ended /\ run < Runs
    /\ run' = run + 1
    /\ prior' = [f \in Pair |-> file[f]]
    /\ gone' = {}
    /\ pc' = "clear"
    /\ UNCHANGED file

Clear ==
    \/ /\ At("clear", "stage_events")
       /\ file' = [f \in DOMAIN file |-> IF f \in Stages THEN Missing ELSE file[f]]
       /\ UNCHANGED <<prior, gone, run>>
    \/ Fails("clear", "failed")

StageEvents ==
    /\ \/ At("stage_events", "stage_snapshot") /\ Put(Stage["events"], run)
       \/ At("stage_events", "failed") /\ Put(Stage["events"], Partial)
    /\ UNCHANGED <<prior, gone, run>>

(* Only a snapshot that cannot be staged has the staging files removed.    *)
StageSnapshot ==
    /\ \/ At("stage_snapshot", "drop_events") /\ Put(Stage["snapshot"], run)
       \/ At("stage_snapshot", "unstage") /\ Put(Stage["snapshot"], Partial)
    /\ UNCHANGED <<prior, gone, run>>

(* replace_with_staged_file, twice.                                        *)
Drop(f, from, to) ==
    \/ At(from, to) /\ Put(f, Missing) /\ UNCHANGED <<prior, gone, run>>
    \/ Fails(from, "restore_events")
Rename(f, from, to) ==
    \/ /\ At(from, to)
       /\ file' = [file EXCEPT ![f] = file[Stage[f]], ![Stage[f]] = Missing]
       /\ UNCHANGED <<prior, gone, run>>
    \/ Fails(from, "restore_events")

ReplaceButSkips ==
    \/ Drop("events", "drop_events", "rename_events")
    \/ Rename("events", "rename_events", "published")
Replace ==
    \/ Drop("events", "drop_events", "rename_events")
    \/ Rename("events", "rename_events", "drop_snapshot")
    \/ Drop("snapshot", "drop_snapshot", "rename_snapshot")
    \/ Rename("snapshot", "rename_snapshot", "published")

(* restore_optional_file, for both files whatever the first one's outcome; *)
(* a rollback that fails is reported in place of the first error.          *)
RestoreButReplaced ==
    \/ /\ At("restore_events", "unstage")
       /\ file' = [f \in DOMAIN file |->
                     IF f \in Pair /\ file[f] = Missing THEN prior[f] ELSE file[f]]
       /\ UNCHANGED <<prior, gone, run>>
    \/ Fails("restore_events", "torn")
Restore ==
    \/ /\ At("restore_events", "unstage")
       /\ file' = [f \in DOMAIN file |-> IF f \in Pair THEN prior[f] ELSE file[f]]
       /\ UNCHANGED <<prior, gone, run>>
    \/ \E kept \in [Pair -> {"restored", "untouched", "partial"}] :
          /\ \E f \in Pair : kept[f] # "restored"
          /\ \A f \in Pair : kept[f] = "partial" => prior[f] # Missing
          /\ At("restore_events", "unstage_torn")
          /\ file' = [f \in DOMAIN file |->
                        IF f \notin Pair THEN file[f]
                        ELSE CASE kept[f] = "restored" -> prior[f]
                               [] kept[f] = "partial"  -> Partial
                               [] OTHER                -> file[f]]
          /\ UNCHANGED <<prior, gone, run>>

(* The staging files are removed, each removal tried whatever the others'  *)
(* outcome.                                                                *)
Unstage(from, to) ==
    \E left \in SUBSET Stages :
       /\ At(from, to)
       /\ file' = [f \in DOMAIN file |->
                     IF f \in Stages \ left THEN Missing ELSE file[f]]
       /\ UNCHANGED <<prior, gone, run>>

-----------------------------------------------------------------------------
(* remove_task_ledger_artifacts: what was deleted is written back when the *)
(* other file cannot be deleted.                                           *)
BeginRemove ==
    /\ pc \in Ended
    /\ prior' = [f \in Pair |-> file[f]]
    /\ gone' = {}
    /\ pc' = "remove_events"
    /\ UNCHANGED <<file, run>>

Remove(f, from, to) ==
    \/ /\ At(from, to)
       /\ gone' = IF file[f] = Missing THEN gone ELSE gone \cup {f}
       /\ Put(f, Missing)
       /\ UNCHANGED <<prior, run>>
    \/ Fails(from, "put_back")

RemoveEachButKeeps ==
    \/ Remove("events", "remove_events", "remove_snapshot")
    \/ Remove("snapshot", "remove_snapshot", "removed")
    \/ Fails("remove_snapshot", "failed")
RemoveEach ==
    \/ Remove("events", "remove_events", "remove_snapshot")
    \/ Remove("snapshot", "remove_snapshot", "removed")

PutBack ==
    \/ /\ At("put_back", "failed")
       /\ file' = [f \in DOMAIN file |-> IF f \in gone THEN prior[f] ELSE file[f]]
       /\ UNCHANGED <<prior, gone, run>>
    \/ /\ At("put_back", "torn")
       /\ \E f \in gone, c \in {Missing, Partial} : Put(f, c)
       /\ UNCHANGED <<prior, gone, run>>

Kill == pc \notin Ended /\ pc' = "killed" /\ UNCHANGED <<file, prior, gone, run>>

PairNext ==
    \/ BeginPublish \/ Clear \/ StageEvents \/ StageSnapshot \/ Replace \/ Restore
    \/ Unstage("unstage", "failed") \/ Unstage("unstage_torn", "torn")
    \/ BeginRemove \/ RemoveEach \/ PutBack \/ Kill

PairSpec == PairInit /\ [][PairNext]_pairVars

-----------------------------------------------------------------------------
(* Files hold a run's artifact, part of one or nothing; calls are known.   *)
PairTypeOK ==
    /\ file \in [Pair \cup Stages -> Content]
    /\ prior \in [Pair -> Content]
    /\ gone \subseteq Pair
    /\ run \in 0..Runs
    /\ pc \in Ended \cup {"clear", "stage_events", "stage_snapshot", "drop_events",
                          "rename_events", "drop_snapshot", "rename_snapshot",
                          "restore_events", "unstage", "unstage_torn",
                          "remove_events", "remove_snapshot", "put_back"}

(* publish_task_ledger_artifacts and remove_task_ledger_artifacts promise  *)
(* a pair: success leaves both files of this run, or neither file, even in *)
(* a directory an earlier run left mixed.                                  *)
SuccessIsWhole ==
    /\ pc = "published" => \A f \in Pair : file[f] = run
    /\ pc = "removed"   => \A f \in Pair : file[f] = Missing

(* "restores the prior on-disk pair state when either final publish        *)
(* fails": a failure whose rollback did not itself fail leaves the pair as *)
(* it was before the operation, at whichever call it failed.               *)
FailureRestores == pc = "failed" => \A f \in Pair : file[f] = prior[f]
=============================================================================
