--------------------------- MODULE AdapterSource ---------------------------
(***************************************************************************)
(* Phase 12.1A: the import of an external adapter.  The importer registers *)
(* a source and its one attempt, writes a stage, renames it to the final   *)
(* path of the source and commits.  Between its transactions it holds no   *)
(* lock: it may be abandoned, and goes on writing through the descriptors  *)
(* it holds.  Nothing waits for a process that stops: it takes no further  *)
(* step, and nobody cleans up what it left.                                *)
(*                                                                         *)
(* The directories and the writers of the attempts of the registry, which  *)
(* publishes in the same manner, are here as well: attempt 0 is the        *)
(* import.  A directory is followed where it is moved, for its writer      *)
(* holds its descriptor.  Digests are left out: the bytes of a file are    *)
(* those of the attempt it was written for.                                *)
(***************************************************************************)
EXTENDS Naturals, Sequences, FiniteSets

CONSTANT MaxAttempts  \* bound: attempts of the adapter

ASSUME AttemptsAssumption == MaxAttempts \in Nat \ {0}

VARIABLES
    source,    \* AdapterImportSource.status
    att,       \* the status of each attempt
    manifest,  \* the attempts whose ownership_manifest is recorded
    dir,       \* the directory of each attempt: where it is, its files
    writer     \* the step the process of each attempt is at

sourceVars == <<source, att, manifest, dir, writer>>

Import == 0
Attempts == Import .. MaxAttempts

\* "bundle" stands for the files of the adapter and their manifest.
FinalFiles == {"bundle"}
StageFiles == FinalFiles \cup {"marker"}

NoDirectory == [at |-> "none", files |-> {}]

\* A tombstone is that of a maintenance item in progress, or an orphan: the
\* item it was moved for is blocked.
StageTombstones == {"stage.tombstone", "stage.orphan"}
FinalTombstones == {"final.tombstone", "final.orphan"}
Directory == [at : {"none", "stage", "final", "gone"}
                     \cup StageTombstones \cup FinalTombstones,
              files : SUBSET StageFiles]

SourceStatus == {"none", "staging", "committed", "claimed", "consumed",
                 "rejected", "abandoned"}
AttemptStatus == {"none", "registered", "validated", "running", "staged", "published",
                  "committed", "succeeded", "failed", "reclaimed", "abandoned"}

\* The steps of a writer; "hash" is of the importer, "open" of a worker.
Steps == {"idle", "hash", "open", "mkdir", "marker", "bundle", "record", "unmark",
          "rename", "mark", "commit", "done"}

SourceInit ==
    /\ source = "none"
    /\ att = [a \in Attempts |-> "none"]
    /\ manifest = {}
    /\ dir = [a \in Attempts |-> NoDirectory]
    /\ writer = [a \in Attempts |-> "idle"]

\* The final path: one for the source, one for all attempts of the adapter.
Family(a) == IF a = Import THEN {Import} ELSE 1 .. MaxAttempts
Occupied(a) == \E b \in Family(a) : dir[b].at = "final"
WholeFinal(a) == dir[a] = [at |-> "final", files |-> FinalFiles]

Goto(a, step) == writer' = [writer EXCEPT ![a] = step]

(***************************************************************************)
(* The steps on disk, of the importer and of the workers.                  *)
(***************************************************************************)

\* The stage is created exclusively, and no row is looked at.
CreateStage(a) ==
    /\ writer[a] = "mkdir"
    /\ dir[a].at = "none"
    /\ dir' = [dir EXCEPT ![a].at = "stage"]
    /\ Goto(a, "marker")

NextFile == [marker |-> "bundle", bundle |-> "record"]

\* Written through the descriptor, wherever the directory is, unless it is
\* removed; the names are compared at the end.
WriteFile(a) ==
    /\ writer[a] \in DOMAIN NextFile
    /\ dir[a].at # "gone"
    /\ LET files == dir[a].files \cup {writer[a]}
       IN  /\ writer[a] = "bundle" => files = StageFiles
           /\ dir' = [dir EXCEPT ![a].files = files]
    /\ Goto(a, NextFile[writer[a]])

\* The first half of publish.
RemoveMarker(a) ==
    /\ writer[a] = "unmark"
    /\ dir[a].at # "gone"
    /\ dir[a].files = StageFiles
    /\ dir' = [dir EXCEPT ![a].files = FinalFiles]
    /\ Goto(a, "rename")

\* The second half: by name, and never over another directory.  No row is
\* looked at.
RenameToFinal(a) ==
    /\ writer[a] = "rename"
    /\ dir[a].at = "stage"
    /\ ~Occupied(a)
    /\ dir' = [dir EXCEPT ![a].at = "final"]
    /\ Goto(a, "mark")

(***************************************************************************)
(* The transactions of the importer.                                       *)
(***************************************************************************)

RegisterImport ==
    /\ source = "none"
    /\ source' = "staging"
    /\ att' = [att EXCEPT ![Import] = "registered"]
    /\ Goto(Import, "hash")
    /\ UNCHANGED <<manifest, dir>>

\* Mutant: reconciliation may have abandoned the attempt.
StillImportingAbandoned(status) == att[Import] \in {status, "abandoned"}

\* _validate_source_attempt: what every later transaction of the importer
\* expects of the rows; their versions move with their statuses.
StillImporting(status) == source = "staging" /\ att[Import] = status

MarkValidated ==
    /\ writer[Import] = "hash"
    /\ StillImporting("registered")
    /\ att' = [att EXCEPT ![Import] = "validated"]
    /\ Goto(Import, "mkdir")
    /\ UNCHANGED <<source, manifest, dir>>

\* _reject_registered
RejectImport ==
    /\ writer[Import] = "hash"
    /\ StillImporting("registered")
    /\ source' = "rejected"
    /\ att' = [att EXCEPT ![Import] = "failed"]
    /\ Goto(Import, "done")
    /\ UNCHANGED <<manifest, dir>>

\* The stage of an import: its rows are not looked at again.
StageImport ==
    /\ CreateStage(Import) \/ WriteFile(Import)
    /\ UNCHANGED <<source, att, manifest>>

MarkStagedImport ==
    /\ writer[Import] = "record"
    /\ StillImporting("validated")
    /\ att' = [att EXCEPT ![Import] = "staged"]
    /\ manifest' = manifest \cup {Import}
    /\ Goto(Import, "unmark")
    /\ UNCHANGED <<source, dir>>

PublishImport ==
    /\ RemoveMarker(Import) \/ RenameToFinal(Import)
    /\ UNCHANGED <<source, att, manifest>>

MarkPublishedImport ==
    /\ writer[Import] = "mark"
    /\ StillImporting("staged")
    /\ att' = [att EXCEPT ![Import] = "published"]
    /\ Goto(Import, "commit")
    /\ UNCHANGED <<source, manifest, dir>>

\* _commit_published, which looks at the retained directory once more.
CommitImport ==
    /\ writer[Import] = "commit"
    /\ StillImporting("published")
    /\ WholeFinal(Import)
    /\ source' = "committed"
    /\ att' = [att EXCEPT ![Import] = "committed"]
    /\ Goto(Import, "done")
    /\ UNCHANGED <<manifest, dir>>

\* Any error: _abandon_registered changes the rows of an attempt that is not
\* staged yet; of one that is, it leaves everything.
AbandonImport ==
    /\ writer[Import] \notin {"idle", "done"}
    /\ source = "staging"
    /\ att[Import] \in {"registered", "validated"}
    /\ source' = "abandoned"
    /\ att' = [att EXCEPT ![Import] = "abandoned"]
    /\ Goto(Import, "done")
    /\ UNCHANGED <<manifest, dir>>

\* Each authorizes its actor anew, who may have lost that right.
ImportTransaction ==
    \/ RegisterImport \/ MarkValidated \/ RejectImport \/ MarkStagedImport
    \/ MarkPublishedImport \/ CommitImport \/ AbandonImport
=============================================================================
