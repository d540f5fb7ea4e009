----------------------- MODULE AdapterReconcile_proofs -----------------------
(***************************************************************************)
(* That what the registry of adapters vouches for is on disk, and that the *)
(* confirmation of a clean-up is final, for any number of attempts.        *)
(***************************************************************************)
EXTENDS MCArtifacts, FiniteSetTheorems, TLAPS

(***************************************************************************)
(* The invariant of sources, adapters and their clean-up.                  *)
(***************************************************************************)

Vouched == {"committed", "claimed", "consumed"}

\* A source that is vouched for has its bundle, and an importer that is done.
ImportRows ==
    /\ source = "none" => att[Import] = "none"
    /\ source \in Vouched =>
          att[Import] = "committed" /\ WholeFinal(Import) /\ writer[Import] = "done"

\* Attempts that were not made yet have no status; what is at the adapter is
\* recorded of its last attempt, and success is that of a worker that is done.
AdapterRows ==
    /\ \A n \in Registry :
          /\ n > adapter.attempt => att[n] = "none"
          /\ att[n] = "succeeded" => adapter.status = "validated" /\ n = adapter.attempt
    /\ adapter.status = "none" => adapter.attempt = 0
    /\ adapter.status = "queued" => att[adapter.attempt] = "registered"
    /\ adapter.status = "running" =>
          att[adapter.attempt] \in {"running", "staged", "published"}
    /\ adapter.status = "validated" =>
          /\ source = "consumed" /\ att[adapter.attempt] = "succeeded"
          /\ WholeFinal(adapter.attempt) /\ writer[adapter.attempt] = "done"

\* A writer makes its directory before anything else; from the record of its
\* manifest on it may publish.
Beginning == {"idle", "hash", "open", "mkdir", "done"}
Publishing == {"unmark", "rename", "mark", "commit"}
WritersFit == \A a \in Attempts : dir[a].at = "none" => writer[a] \in Beginning

\* An attempt that is confirmed clean is over; where its directory may still
\* be made or filled, its writer has not recorded a manifest and never will.
ConfirmedFit == \A a \in confirmed :
    /\ Terminal(a) /\ dir[a].at \in {"none", "stage", "gone"}
    /\ dir[a].at # "gone" => writer[a] \notin Publishing
    /\ \A s \in Surfaces : Status(a, s) \notin Active

\* A final has items only of an attempt with a manifest; the command is at an
\* active item of an attempt that is over, and at an entry while one is left.
FinalsFit == \A a \in Attempts : Status(a, "final") # "untried" => a \in manifest
CommandFits ==
    /\ command.step \notin {"idle", "next"} =>
          Terminal(command.a) /\ Status(command.a, command.s) \in Active
    /\ command.step \in {"journal", "unlink", "advance"} => Left(command.a, command.s)

BundlesInv ==
    /\ AdapterTypeOK /\ ImportRows /\ AdapterRows /\ WritersFit
    /\ ConfirmedFit /\ FinalsFit /\ CommandFits

(***************************************************************************)
(* The parts of the type invariant.                                        *)
(***************************************************************************)

AdapterRow == [status : AdapterStatus, attempt : Attempts]

RowsTyped ==
    /\ source \in SourceStatus /\ att \in [Attempts -> AttemptStatus]
    /\ manifest \subseteq Attempts
    /\ adapter \in AdapterRow /\ (adapter.status # "none" => adapter.attempt \in Registry)
    /\ lapsed \in BOOLEAN
WritersTyped == writer \in [Attempts -> Steps]
DirsTyped == dir \in [Attempts -> Directory]
MaintenanceTyped ==
    /\ operation \in BOOLEAN
    /\ item \in [Attempts -> [Surfaces -> Item]]
    /\ recheck \subseteq Attempts /\ quarantine \subseteq Attempts
    /\ confirmed \subseteq Attempts
    /\ command \in Command

LEMMA AdapterTypes ==
    AdapterTypeOK <=> RowsTyped /\ WritersTyped /\ DirsTyped /\ MaintenanceTyped
BY DEF AdapterTypeOK, RowsTyped, WritersTyped, DirsTyped, MaintenanceTyped, AdapterRow

LEMMA AdapterTypesNext ==
    AdapterTypeOK' <=> (RowsTyped /\ WritersTyped /\ DirsTyped /\ MaintenanceTyped)'
BY DEF AdapterTypeOK, RowsTyped, WritersTyped, DirsTyped, MaintenanceTyped, AdapterRow

LEMMA AttemptsAre ==
    /\ Import \in Attempts /\ Import \notin Registry /\ 1 \in Registry
    /\ \A n \in Registry : n \in Attempts /\ n \in Nat /\ n # 0
    /\ \A n \in Attempts : n \in Nat /\ (n = Import \/ n \in Registry)
BY AttemptsAssumption DEF Attempts, Registry, Import

(***************************************************************************)
(* Steps of the writers on disk.                                           *)
(***************************************************************************)

\* A writer fills its own directory; one that began to publish only a
\* directory that is not gone.
DiskMoves(a) ==
    /\ WritersTyped' /\ DirsTyped' /\ writer[a] \notin {"idle", "done"}
    /\ \A b \in Attempts \ {a} : dir'[b] = dir[b] /\ writer'[b] = writer[b]
    /\ dir'[a].at # "none"
    /\ writer[a] \notin Publishing =>
          /\ writer'[a] \notin Publishing
          /\ dir'[a].at = dir[a].at \/ (dir[a].at = "none" /\ dir'[a].at = "stage")
    /\ writer[a] \in Publishing => dir[a].at # "gone"

LEMMA Filled ==
    ASSUME DirsTyped, NEW a \in Attempts, NEW files \in SUBSET StageFiles,
           dir' = [dir EXCEPT ![a].files = files]
    PROVE  /\ DirsTyped' /\ \A b \in Attempts \ {a} : dir'[b] = dir[b]
           /\ dir'[a].at = dir[a].at
<1> DEFINE d == [dir[a] EXCEPT !.files = files]
<1>1. dir \in [Attempts -> Directory] /\ dir[a] \in Directory
    BY DEF DirsTyped
<1>2. d \in Directory /\ d.at = dir[a].at
    BY <1>1 DEF Directory
<1>3. dir' = [dir EXCEPT ![a] = d]
    BY <1>1
<1> HIDE DEF d
<1>4. QED
    BY <1>1, <1>2, <1>3 DEF DirsTyped

Whereabouts == {"none", "stage", "final", "gone"} \cup StageTombstones \cup FinalTombstones

LEMMA MovedTo ==
    ASSUME DirsTyped, NEW a \in Attempts, NEW at \in Whereabouts,
           dir' = [dir EXCEPT ![a].at = at]
    PROVE  /\ DirsTyped' /\ \A b \in Attempts \ {a} : dir'[b] = dir[b]
           /\ dir'[a].at = at /\ dir'[a].files = dir[a].files
<1> DEFINE d == [dir[a] EXCEPT !.at = at]
<1>1. dir \in [Attempts -> Directory] /\ dir[a] \in Directory
    BY DEF DirsTyped
<1>2. d \in Directory /\ d.at = at /\ d.files = dir[a].files
    BY <1>1 DEF Directory, Whereabouts
<1>3. dir' = [dir EXCEPT ![a] = d]
    BY <1>1
<1> HIDE DEF d
<1>4. QED
    BY <1>1, <1>2, <1>3 DEF DirsTyped

LEMMA Goes ==
    ASSUME WritersTyped, NEW a \in Attempts, NEW step \in Steps, Goto(a, step)
    PROVE  /\ WritersTyped' /\ \A b \in Attempts \ {a} : writer'[b] = writer[b]
           /\ writer'[a] = step
BY DEF WritersTyped, Goto

LEMMA Writing ==
    ASSUME WritersTyped, DirsTyped, WritersFit, NEW a \in Attempts,
           CreateStage(a) \/ WriteFile(a) \/ RemoveMarker(a) \/ RenameToFinal(a)
    PROVE  DiskMoves(a)
<1>1. CASE CreateStage(a)
    <2>1. dir' = [dir EXCEPT ![a].at = "stage"] /\ Goto(a, "marker")
          /\ writer[a] = "mkdir" /\ dir[a].at = "none"
        BY <1>1 DEF CreateStage
    <2>2. /\ DirsTyped' /\ \A b \in Attempts \ {a} : dir'[b] = dir[b]
          /\ dir'[a].at = "stage"
        BY <2>1, MovedTo DEF Whereabouts
    <2>3. /\ WritersTyped' /\ \A b \in Attempts \ {a} : writer'[b] = writer[b]
          /\ writer'[a] = "marker"
        BY <2>1, Goes DEF Steps
    <2>4. QED
        BY <2>1, <2>2, <2>3 DEF DiskMoves, Publishing
<1>2. CASE WriteFile(a)
    <2>1. writer[a] \in {"marker", "bundle"}
        BY <1>2 DEF WriteFile, NextFile
    <2>2. PICK files \in SUBSET StageFiles : dir' = [dir EXCEPT ![a].files = files]
        <3>1. dir[a].files \subseteq StageFiles
            BY DEF DirsTyped, Directory
        <3>2. writer[a] \in StageFiles
            BY <2>1 DEF StageFiles, FinalFiles
        <3>3. QED
            BY <1>2, <3>1, <3>2 DEF WriteFile
    <2>3. PICK step \in {"bundle", "record"} : Goto(a, step)
        BY <1>2, <2>1 DEF WriteFile, NextFile
    <2>4. /\ DirsTyped' /\ \A b \in Attempts \ {a} : dir'[b] = dir[b]
          /\ dir'[a].at = dir[a].at
        BY <2>2, Filled
    <2>5. /\ WritersTyped' /\ \A b \in Attempts \ {a} : writer'[b] = writer[b]
          /\ writer'[a] = step
        BY <2>3, Goes DEF Steps
    <2>6. dir[a].at # "none"
        BY <2>1 DEF WritersFit, Beginning
    <2>7. QED
        BY <2>1, <2>4, <2>5, <2>6 DEF DiskMoves, Publishing
<1>3. CASE RemoveMarker(a)
    <2>1. /\ writer[a] = "unmark" /\ dir[a].at # "gone"
          /\ dir' = [dir EXCEPT ![a].files = FinalFiles] /\ Goto(a, "rename")
        BY <1>3 DEF RemoveMarker
    <2>2. /\ DirsTyped' /\ \A b \in Attempts \ {a} : dir'[b] = dir[b]
          /\ dir'[a].at = dir[a].at
        BY <2>1, Filled DEF StageFiles
    <2>3. /\ WritersTyped' /\ \A b \in Attempts \ {a} : writer'[b] = writer[b]
          /\ writer'[a] = "rename"
        BY <2>1, Goes DEF Steps
    <2>4. dir[a].at # "none"
        BY <2>1 DEF WritersFit, Beginning
    <2>5. QED
        BY <2>1, <2>2, <2>3, <2>4 DEF DiskMoves, Publishing
<1>4. CASE RenameToFinal(a)
    <2>1. /\ writer[a] = "rename" /\ dir[a].at = "stage"
          /\ dir' = [dir EXCEPT ![a].at = "final"] /\ Goto(a, "mark")
        BY <1>4 DEF RenameToFinal
    <2>2. /\ DirsTyped' /\ \A b \in Attempts \ {a} : dir'[b] = dir[b]
          /\ dir'[a].at = "final"
        BY <2>1, MovedTo DEF Whereabouts
    <2>3. /\ WritersTyped' /\ \A b \in Attempts \ {a} : writer'[b] = writer[b]
          /\ writer'[a] = "mark"
        BY <2>1, Goes DEF Steps
    <2>4. QED
        BY <2>1, <2>2, <2>3 DEF DiskMoves, Publishing
<1>5. QED
    BY <1>1, <1>2, <1>3, <1>4

LEMMA WritingKeeps ==
    ASSUME BundlesInv, NEW a \in Attempts,
           CreateStage(a) \/ WriteFile(a) \/ RemoveMarker(a) \/ RenameToFinal(a),
           UNCHANGED <<source, att, manifest, registryVars, reconcileVars>>
    PROVE  BundlesInv'
<1>1. RowsTyped /\ WritersTyped /\ DirsTyped /\ MaintenanceTyped
    BY AdapterTypes DEF BundlesInv
<1>2. WritersFit
    BY DEF BundlesInv
<1>3. DiskMoves(a)
    BY <1>1, <1>2, Writing
<1>4. AdapterTypeOK'
    BY <1>1, <1>3, AdapterTypesNext
    DEF DiskMoves, registryVars, reconcileVars, RowsTyped, MaintenanceTyped
<1>5. ImportRows'
    BY <1>3, AttemptsAre DEF BundlesInv, ImportRows, DiskMoves, WholeFinal
<1>6. AdapterRows'
    <2>1. adapter.status = "validated" => adapter.attempt \in Attempts \ {a}
        BY <1>1, <1>3, AttemptsAre DEF BundlesInv, AdapterRows, DiskMoves, RowsTyped
    <2>2. QED
        BY <1>3, <2>1 DEF BundlesInv, AdapterRows, DiskMoves, WholeFinal, registryVars
<1>7. WritersFit'
    BY <1>2, <1>3 DEF WritersFit, DiskMoves
<1>8. ConfirmedFit'
    <2>1. ASSUME NEW b \in confirmed
          PROVE  /\ dir'[b].at \in {"none", "stage", "gone"}
                 /\ dir'[b].at # "gone" => writer'[b] \notin Publishing
        <3>1. b \in Attempts /\ dir[b].at \in {"none", "stage", "gone"}
              /\ (dir[b].at # "gone" => writer[b] \notin Publishing)
            BY <1>1 DEF BundlesInv, ConfirmedFit, MaintenanceTyped
        <3>2. CASE b = a
            BY <3>1, <3>2, <1>3 DEF DiskMoves
        <3>3. CASE b # a
            BY <3>1, <3>3, <1>3 DEF DiskMoves
        <3>4. QED
            BY <3>2, <3>3
    <2>2. QED
        BY <2>1 DEF BundlesInv, ConfirmedFit, Terminal, Status, reconcileVars
<1>9. FinalsFit' /\ CommandFits'
    BY DEF BundlesInv, FinalsFit, CommandFits, Terminal, Status, Left, reconcileVars
<1>10. QED
    BY <1>4, <1>5, <1>6, <1>7, <1>8, <1>9 DEF BundlesInv

(***************************************************************************)
(* Steps of the rows of sources and adapters.                              *)
(***************************************************************************)

\* A transaction of attempt a, whose writer goes on: what is over stays over,
\* and a writer begins to publish only in a transaction of a living attempt.
RowsMove(a) ==
    /\ UNCHANGED <<dir, reconcileVars>>
    /\ RowsTyped' /\ WritersTyped' /\ manifest \subseteq manifest'
    /\ \A b \in Attempts \ {a} : writer'[b] = writer[b]
    /\ writer[a] \in Beginning => writer'[a] \in Beginning
    /\ writer'[a] \in Publishing => writer[a] \in Publishing \/ ~Terminal(a)
    /\ \A b \in Attempts : Terminal(b) => Terminal(b)'

LEMMA RowsMoveKeep ==
    ASSUME BundlesInv, NEW a \in Attempts, RowsMove(a), ImportRows', AdapterRows'
    PROVE  BundlesInv'
<1>1. RowsTyped /\ WritersTyped /\ DirsTyped /\ MaintenanceTyped
    BY AdapterTypes DEF BundlesInv
<1>2. AdapterTypeOK'
    BY <1>1, AdapterTypesNext DEF RowsMove, reconcileVars, DirsTyped, MaintenanceTyped
<1>3. WritersFit'
    BY DEF BundlesInv, WritersFit, RowsMove
<1>4. ConfirmedFit'
    <2>1. ASSUME NEW b \in confirmed
          PROVE  /\ Terminal(b)'
                 /\ dir[b].at # "gone" => writer'[b] \notin Publishing
        <3>1. /\ b \in Attempts /\ Terminal(b)
              /\ dir[b].at # "gone" => writer[b] \notin Publishing
            BY <1>1 DEF BundlesInv, ConfirmedFit, MaintenanceTyped
        <3>2. CASE b = a
            BY <3>1, <3>2 DEF RowsMove
        <3>3. CASE b # a
            BY <3>1, <3>3 DEF RowsMove
        <3>4. QED
            BY <3>2, <3>3
    <2>2. UNCHANGED <<dir, confirmed, item>>
        BY DEF RowsMove, reconcileVars
    <2>3. QED
        BY <2>1, <2>2 DEF BundlesInv, ConfirmedFit, Status
<1>5. FinalsFit'
    BY DEF BundlesInv, FinalsFit, RowsMove, Status, reconcileVars
<1>6. CommandFits'
    <2>1. command.a \in Attempts /\ UNCHANGED <<command, item>>
        BY <1>1 DEF MaintenanceTyped, Command, RowsMove, reconcileVars
    <2>2. QED
        BY <2>1 DEF BundlesInv, CommandFits, RowsMove, Status, Left
<1>7. QED
    BY <1>2, <1>3, <1>4, <1>5, <1>6 DEF BundlesInv

\* The importer: the rows of the source, while they are its own.
LEMMA ImportTransactionKeeps ==
    ASSUME BundlesInv, ImportTransaction, UNCHANGED <<registryVars, reconcileVars>>
    PROVE  BundlesInv'
<1>1. RowsTyped /\ WritersTyped /\ DirsTyped /\ MaintenanceTyped /\ Import \in Attempts
    BY AdapterTypes, AttemptsAre DEF BundlesInv
<1>2. /\ dir' = dir
      /\ manifest \subseteq manifest' /\ manifest' \subseteq manifest \cup {Import}
      /\ source \in {"none", "staging"}
      /\ source' \in SourceStatus \ {"none", "claimed", "consumed"}
    BY DEF ImportTransaction, RegisterImport, MarkValidated, RejectImport, MarkStagedImport,
           MarkPublishedImport, CommitImport, AbandonImport, StillImporting, SourceStatus
<1>3. PICK status \in AttemptStatus \ {"none"} :
          /\ att' = [att EXCEPT ![Import] = status]
          /\ source' = "committed" <=> status = "committed"
          /\ status \in {"registered", "validated", "staged", "published", "committed",
                         "failed", "abandoned"}
    BY DEF ImportTransaction, RegisterImport, MarkValidated, RejectImport, MarkStagedImport,
           MarkPublishedImport, CommitImport, AbandonImport, StillImporting, AttemptStatus
<1>4. ~Terminal(Import)
    <2>1. CASE RegisterImport
        BY <2>1 DEF RegisterImport, BundlesInv, ImportRows, Terminal
    <2>2. CASE ~RegisterImport
        BY <2>2 DEF ImportTransaction, MarkValidated, RejectImport, MarkStagedImport,
               MarkPublishedImport, CommitImport, AbandonImport, StillImporting, Terminal
    <2>3. QED
        BY <2>1, <2>2
<1>5. PICK step \in {"hash", "mkdir", "done", "unmark", "commit"} :
          /\ Goto(Import, step)
          /\ step \in {"unmark", "commit"} => writer[Import] \notin Beginning
          /\ source' = "committed" => step = "done" /\ WholeFinal(Import)
    BY DEF ImportTransaction, RegisterImport, MarkValidated, RejectImport, MarkStagedImport,
           MarkPublishedImport, CommitImport, AbandonImport, StillImporting, Beginning
<1>6. /\ WritersTyped' /\ writer'[Import] = step
      /\ \A b \in Attempts \ {Import} : writer'[b] = writer[b]
    BY <1>1, <1>5, Goes DEF Steps
<1>7. /\ att' \in [Attempts -> AttemptStatus] /\ att'[Import] = status
      /\ \A b \in Attempts \ {Import} : att'[b] = att[b]
    BY <1>1, <1>3 DEF RowsTyped
<1>8. RowsMove(Import)
    <2>1. RowsTyped'
        BY <1>1, <1>2, <1>7 DEF RowsTyped, registryVars
    <2>2. \A b \in Attempts : Terminal(b) => Terminal(b)'
        BY <1>4, <1>7 DEF Terminal
    <2>3. writer[Import] \in Beginning => writer'[Import] \in Beginning
        BY <1>5, <1>6 DEF Beginning
    <2>4. QED
        BY <1>2, <1>4, <1>6, <2>1, <2>2, <2>3 DEF RowsMove
<1>9. ImportRows'
    BY <1>2, <1>3, <1>5, <1>6, <1>7 DEF ImportRows, Vouched, WholeFinal, SourceStatus
<1>10. AdapterRows'
    <2>1. adapter.status # "validated"
        BY <1>2 DEF BundlesInv, AdapterRows
    <2>2. \A n \in Registry : att'[n] = att[n]
        BY <1>7, AttemptsAre
    <2>3. adapter.status # "none" => adapter.attempt \in Registry
        BY <1>1 DEF RowsTyped
    <2>4. QED
        BY <2>1, <2>2, <2>3 DEF BundlesInv, AdapterRows, registryVars
<1>11. QED
    BY <1>1, <1>8, <1>9, <1>10, RowsMoveKeep

\* A step of the adapter, of an attempt that is not over, or of none: the
\* rows of the source stay but for its status.
LEMMA AdapterStepKeeps ==
    ASSUME BundlesInv, NEW n \in Registry, UNCHANGED <<dir, reconcileVars>>,
           manifest' \in {manifest, manifest \cup {n}},
           NEW step \in Steps, Goto(n, step) \/ (writer' = writer /\ step = writer[n]),
           writer[n] \in Beginning => step \in Beginning,
           step \in Publishing => writer[n] \in Publishing \/ ~Terminal(n),
           att' \in [Attempts -> AttemptStatus], att'[Import] = att[Import],
           \A b \in Attempts : Terminal(b) => Terminal(b)',
           source' = source \/ (source \in Vouched /\ source' \in Vouched),
           adapter' \in AdapterRow, adapter'.attempt \in Registry,
           lapsed' \in BOOLEAN, AdapterRows'
    PROVE  BundlesInv'
<1>1. RowsTyped /\ WritersTyped /\ n \in Attempts /\ n # Import /\ Import \in Attempts
    BY AdapterTypes, AttemptsAre DEF BundlesInv
<1>2. /\ WritersTyped' /\ writer'[n] = step
      /\ \A b \in Attempts \ {n} : writer'[b] = writer[b]
    BY <1>1, Goes DEF WritersTyped
<1>3. RowsTyped'
    BY <1>1 DEF RowsTyped, Vouched, SourceStatus
<1>4. RowsMove(n)
    BY <1>1, <1>2, <1>3 DEF RowsMove
<1>5. ImportRows'
    BY <1>1, <1>2 DEF BundlesInv, ImportRows, WholeFinal, Vouched
<1>6. QED
    BY <1>1, <1>4, <1>5, RowsMoveKeep

LEMMA RowsAre ==
    ASSUME BundlesInv
    PROVE  /\ att \in [Attempts -> AttemptStatus] /\ adapter \in AdapterRow
           /\ adapter.attempt \in Attempts /\ adapter.attempt \in Nat
           /\ adapter.status # "none" => adapter.attempt \in Registry
           /\ writer \in [Attempts -> Steps] /\ lapsed \in BOOLEAN
BY AdapterTypes, AttemptsAre DEF BundlesInv, RowsTyped, WritersTyped, AdapterRow

LEMMA LapseKeeps ==
    ASSUME BundlesInv, LapseLease, UNCHANGED reconcileVars
    PROVE  BundlesInv'
<1>1. lapsed' = TRUE /\ UNCHANGED <<source, att, manifest, dir, writer, adapter>>
      /\ adapter.status = "running"
    BY DEF LapseLease, sourceVars
<1>2. RowsTyped' /\ WritersTyped'
    BY <1>1, AdapterTypes DEF BundlesInv, RowsTyped, WritersTyped
<1>3. RowsMove(Import)
    BY <1>1, <1>2 DEF RowsMove, Terminal
<1>4. ImportRows' /\ AdapterRows'
    BY <1>1 DEF BundlesInv, ImportRows, AdapterRows, WholeFinal
<1>5. QED
    BY <1>3, <1>4, RowsMoveKeep, AttemptsAre

LEMMA EnqueueAdapterKeeps ==
    ASSUME BundlesInv, EnqueueAdapter, UNCHANGED reconcileVars
    PROVE  BundlesInv'
<1>1. /\ adapter.status = "none" /\ source = "committed" /\ source' = "claimed"
      /\ adapter' = [status |-> "queued", attempt |-> 1]
      /\ att' = [att EXCEPT ![1] = "registered"]
      /\ UNCHANGED <<manifest, dir, writer, lapsed>>
    BY DEF EnqueueAdapter, SourceCommitted
<1>2. 1 \in Registry /\ 1 \in Attempts /\ 1 # Import /\ Import \in Attempts
    BY AttemptsAre
<1>3. \A n \in Registry : att[n] = "none"
    BY <1>1, AttemptsAre DEF BundlesInv, AdapterRows
<1>4. /\ att' \in [Attempts -> AttemptStatus] /\ att'[1] = "registered"
      /\ \A b \in Attempts \ {1} : att'[b] = att[b]
    BY <1>1, <1>2, RowsAre DEF AttemptStatus
<1>5. \A b \in Attempts : Terminal(b) => Terminal(b)'
    BY <1>2, <1>3, <1>4 DEF Terminal
<1>6. adapter' \in AdapterRow /\ adapter'.status = "queued" /\ adapter'.attempt = 1
    BY <1>1, <1>2 DEF AdapterRow, AdapterStatus
<1>7. AdapterRows'
    <2>1. \A n \in Registry : att'[n] = IF n = 1 THEN "registered" ELSE "none"
        BY <1>3, <1>4, AttemptsAre
    <2>2. QED
        BY <1>6, <2>1, <1>2 DEF AdapterRows
<1>8. writer[1] \in Steps /\ lapsed' \in BOOLEAN /\ source \in Vouched /\ source' \in Vouched
    BY <1>1, <1>2, RowsAre DEF Vouched
<1>9. att'[Import] = att[Import]
    BY <1>2, <1>4
<1>10. QED
    BY <1>1, <1>2, <1>4, <1>5, <1>6, <1>7, <1>8, <1>9, AdapterStepKeeps

LEMMA ClaimAdapterKeeps ==
    ASSUME BundlesInv, ClaimAdapter, UNCHANGED reconcileVars
    PROVE  BundlesInv'
<1> DEFINE stale == adapter.status = "running"
           last == adapter.attempt
           next == last + (IF Reclaims(last) THEN 1 ELSE 0)
<1>1. /\ adapter.status \in {"queued", "running"} /\ source = "claimed" /\ next \in Registry
      /\ att' = [a \in Attempts |-> IF a = next THEN "running"
                                    ELSE IF Reclaims(a) THEN "reclaimed" ELSE att[a]]
      /\ adapter' = [status |-> "running", attempt |-> next]
      /\ Goto(next, "open") /\ lapsed' = FALSE /\ UNCHANGED <<source, manifest, dir>>
    BY DEF ClaimAdapter, Claimable
<1>2. /\ last \in Registry /\ last \in Nat /\ last # Import
      /\ next \in Attempts /\ next \in Nat /\ next # Import
    BY <1>1, RowsAre, AttemptsAre
<1>3. /\ next >= last
      /\ next # last => next > last /\ stale
      /\ next = last => ~stale /\ adapter.status = "queued"
    BY <1>1, <1>2 DEF Reclaims
<1>4. ~Terminal(next) /\ (adapter.status = "queued" => att[last] = "registered")
      /\ (adapter.status = "running" => att[last] \in {"running", "staged", "published"})
    BY <1>1, <1>2, <1>3 DEF BundlesInv, AdapterRows, Terminal
<1> HIDE DEF next, last, stale
<1>5. att' \in [Attempts -> AttemptStatus]
    BY <1>1, RowsAre DEF AttemptStatus
<1>6. \A b \in Attempts : att'[b] = IF b = next THEN "running"
                                    ELSE IF Reclaims(b) THEN "reclaimed" ELSE att[b]
    BY <1>1
<1>7. att'[Import] = att[Import]
    BY <1>2, <1>6, AttemptsAre DEF Reclaims, last
<1>8. \A b \in Attempts : Terminal(b) => Terminal(b)'
    BY <1>4, <1>6 DEF Terminal
<1>9. adapter' \in AdapterRow /\ adapter'.status = "running" /\ adapter'.attempt = next
    BY <1>1, <1>2 DEF AdapterRow, AdapterStatus
<1>10. AdapterRows'
    <2>1. ASSUME NEW n \in Registry
          PROVE  /\ n > next => att'[n] = "none"
                 /\ att'[n] # "succeeded"
        <3>1. n \in Nat /\ n \in Attempts
            BY AttemptsAre
        <3>2. n > next => n > last /\ n # next /\ ~Reclaims(n)
            BY <1>2, <1>3, <3>1 DEF Reclaims, last
        <3>3. (n > last => att[n] = "none") /\ att[n] # "succeeded"
            BY <1>1 DEF BundlesInv, AdapterRows, last
        <3>4. QED
            BY <1>6, <3>1, <3>2, <3>3
    <2>2. att'[next] = "running"
        BY <1>2, <1>6
    <2>3. QED
        BY <1>9, <2>1, <2>2 DEF AdapterRows
<1>11. QED
    BY <1>1, <1>5, <1>7, <1>8, <1>9, <1>10, AdapterStepKeeps DEF Steps, Beginning, Publishing

\* The last attempt of a living adapter is over, or goes a status further.
LEMMA LastAttempt ==
    ASSUME BundlesInv, adapter.status \in {"queued", "running"},
           NEW status \in {"staged", "published", "failed", "succeeded"},
           att' = [att EXCEPT ![adapter.attempt] = status]
    PROVE  /\ adapter.attempt \in Registry /\ ~Terminal(adapter.attempt)
           /\ att' \in [Attempts -> AttemptStatus] /\ att'[adapter.attempt] = status
           /\ att'[Import] = att[Import]
           /\ \A b \in Attempts : Terminal(b) => Terminal(b)'
           /\ \A n \in Registry :
                 /\ n > adapter.attempt => att'[n] = "none"
                 /\ att'[n] = "succeeded" => n = adapter.attempt /\ status = "succeeded"
<1>1. /\ adapter.attempt \in Registry /\ adapter.attempt \in Attempts
      /\ adapter.attempt # Import /\ adapter.attempt \in Nat
      /\ att \in [Attempts -> AttemptStatus]
    BY RowsAre, AttemptsAre
<1>2. ~Terminal(adapter.attempt)
    BY DEF BundlesInv, AdapterRows, Terminal
<1>3. /\ att' \in [Attempts -> AttemptStatus] /\ att'[adapter.attempt] = status
      /\ \A b \in Attempts \ {adapter.attempt} : att'[b] = att[b]
    BY <1>1 DEF AttemptStatus
<1>4. \A b \in Attempts : Terminal(b) => Terminal(b)'
    BY <1>2, <1>3 DEF Terminal
<1>5. ASSUME NEW n \in Registry
      PROVE  /\ n > adapter.attempt => att'[n] = "none"
             /\ att'[n] = "succeeded" => n = adapter.attempt /\ status = "succeeded"
    <2>1. n \in Attempts /\ n \in Nat /\ (n > adapter.attempt => n # adapter.attempt)
        BY <1>1, AttemptsAre
    <2>2. (n > adapter.attempt => att[n] = "none") /\ att[n] # "succeeded"
        BY DEF BundlesInv, AdapterRows
    <2>3. QED
        BY <1>3, <2>1, <2>2
<1>6. QED
    BY <1>1, <1>2, <1>3, <1>4, <1>5, AttemptsAre

LEMMA FailClaimKeeps ==
    ASSUME BundlesInv, FailClaim, UNCHANGED reconcileVars
    PROVE  BundlesInv'
<1> DEFINE n == adapter.attempt
<1>1. /\ adapter.status \in {"queued", "running"}
      /\ att' = [att EXCEPT ![n] = "failed"] /\ adapter' = [adapter EXCEPT !.status = "failed"]
      /\ lapsed' = FALSE /\ UNCHANGED <<source, manifest, dir, writer>>
    BY DEF FailClaim, Fail, Claimable
<1>2. /\ n \in Registry /\ att' \in [Attempts -> AttemptStatus] /\ att'[Import] = att[Import]
      /\ \A b \in Attempts : Terminal(b) => Terminal(b)'
      /\ \A m \in Registry : (m > n => att'[m] = "none") /\ att'[m] # "succeeded"
    BY <1>1, LastAttempt
<1>3. adapter' \in AdapterRow /\ adapter'.status = "failed" /\ adapter'.attempt = n
    BY <1>1, RowsAre DEF AdapterRow, AdapterStatus
<1> HIDE DEF n
<1>4. AdapterRows'
    BY <1>2, <1>3 DEF AdapterRows
<1>5. writer[n] \in Steps
    BY <1>2, RowsAre, AttemptsAre
<1>6. QED
    BY <1>1, <1>2, <1>3, <1>4, <1>5, AdapterStepKeeps

LEMMA OpenBundlesKeeps ==
    ASSUME BundlesInv, NEW n \in Registry, OpenBundles(n), UNCHANGED reconcileVars
    PROVE  BundlesInv'
<1>1. /\ Goto(n, "mkdir") /\ Live(n) /\ writer[n] = "open"
      /\ UNCHANGED <<source, att, manifest, dir, adapter, lapsed>>
    BY DEF OpenBundles, Checked, registryVars
<1>2. adapter.status = "running"
    BY <1>1 DEF Live, AuthorityCurrent, AdapterMatches, ClaimOf
<1>3. /\ att' \in [Attempts -> AttemptStatus] /\ adapter' \in AdapterRow
      /\ adapter'.attempt \in Registry /\ lapsed' \in BOOLEAN
    BY <1>1, <1>2, RowsAre
<1>4. AdapterRows'
    BY <1>1, <1>2 DEF BundlesInv, AdapterRows
<1>5. \A b \in Attempts : Terminal(b) => Terminal(b)'
    BY <1>1 DEF Terminal
<1>6. QED
    BY <1>1, <1>3, <1>4, <1>5, AdapterStepKeeps DEF Steps, Beginning, Publishing

\* The claim of a worker names the last attempt, which is its own.
LEMMA LiveClaim ==
    ASSUME NEW n, Live(n)
    PROVE  adapter.status = "running" /\ adapter.attempt = n /\ source = "claimed"
BY DEF Live, AuthorityCurrent, AdapterMatches, ClaimOf, SourceMatches

LEMMA MarkKeeps ==
    ASSUME BundlesInv, NEW n \in Registry, MarkStaged(n) \/ MarkPublished(n),
           UNCHANGED reconcileVars
    PROVE  BundlesInv'
<1>1. PICK status \in {"staged", "published"}, step \in {"unmark", "commit"} :
          /\ att' = [att EXCEPT ![n] = status] /\ Goto(n, step)
          /\ Live(n) /\ writer[n] \in {"record", "mark"}
          /\ manifest' \in {manifest, manifest \cup {n}}
          /\ UNCHANGED <<source, dir, adapter, lapsed>>
    BY DEF MarkStaged, MarkPublished, Checked, registryVars
<1>2. adapter.status = "running" /\ adapter.attempt = n
    BY <1>1, LiveClaim
<1>3. /\ ~Terminal(n) /\ att' \in [Attempts -> AttemptStatus] /\ att'[n] = status
      /\ att'[Import] = att[Import]
      /\ \A b \in Attempts : Terminal(b) => Terminal(b)'
      /\ \A m \in Registry : (m > n => att'[m] = "none") /\ att'[m] # "succeeded"
    BY <1>1, <1>2, LastAttempt
<1>4. adapter' \in AdapterRow /\ adapter'.attempt \in Registry /\ lapsed' \in BOOLEAN
    BY <1>1, <1>2, RowsAre
<1>5. AdapterRows'
    BY <1>1, <1>2, <1>3 DEF AdapterRows
<1>6. step \in Steps /\ writer[n] \notin Beginning
    BY <1>1 DEF Steps, Beginning
<1>7. QED
    BY <1>1, <1>3, <1>4, <1>5, <1>6, AdapterStepKeeps

LEMMA FinishSuccessKeeps ==
    ASSUME BundlesInv, NEW n \in Registry, FinishSuccess(n), UNCHANGED reconcileVars
    PROVE  BundlesInv'
<1>1. /\ att' = [att EXCEPT ![n] = "succeeded"] /\ Goto(n, "done") /\ Live(n)
      /\ WholeFinal(n) /\ adapter' = [adapter EXCEPT !.status = "validated"]
      /\ source' = "consumed" /\ UNCHANGED <<manifest, dir, lapsed>>
    BY DEF FinishSuccess, Checked
<1>2. adapter.status = "running" /\ adapter.attempt = n /\ source = "claimed"
    BY <1>1, LiveClaim
<1>3. /\ att' \in [Attempts -> AttemptStatus] /\ att'[n] = "succeeded"
      /\ att'[Import] = att[Import]
      /\ \A b \in Attempts : Terminal(b) => Terminal(b)'
      /\ \A m \in Registry : (m > n => att'[m] = "none") /\ (att'[m] = "succeeded" => m = n)
    BY <1>1, <1>2, LastAttempt
<1>4. adapter' \in AdapterRow /\ adapter'.status = "validated" /\ adapter'.attempt = n
      /\ lapsed' \in BOOLEAN
    BY <1>1, <1>2, RowsAre DEF AdapterRow, AdapterStatus
<1>5. writer'[n] = "done" /\ "done" \in Steps
    <2>1. WritersTyped /\ n \in Attempts /\ "done" \in Steps
        BY AdapterTypes, AttemptsAre DEF BundlesInv, Steps
    <2>2. QED
        BY <1>1, <2>1, Goes
<1>6. AdapterRows'
    BY <1>1, <1>3, <1>4, <1>5 DEF AdapterRows, WholeFinal
<1>7. source \in Vouched /\ source' \in Vouched
    BY <1>1, <1>2 DEF Vouched
<1>8. QED
    BY <1>1, <1>3, <1>4, <1>5, <1>6, <1>7, AdapterStepKeeps DEF Beginning, Publishing

LEMMA RecordFailureKeeps ==
    ASSUME BundlesInv, NEW n \in Registry, RecordFailure(n), UNCHANGED reconcileVars
    PROVE  BundlesInv'
<1>1. /\ att' = [att EXCEPT ![n] = "failed"] /\ Goto(n, "done") /\ Live(n)
      /\ adapter' = [adapter EXCEPT !.status = "failed"]
      /\ lapsed' = FALSE /\ UNCHANGED <<source, manifest, dir>>
    BY DEF RecordFailure, Fail
<1>2. adapter.status = "running" /\ adapter.attempt = n
    BY <1>1, LiveClaim
<1>3. /\ att' \in [Attempts -> AttemptStatus] /\ att'[Import] = att[Import]
      /\ \A b \in Attempts : Terminal(b) => Terminal(b)'
      /\ \A m \in Registry : (m > n => att'[m] = "none") /\ att'[m] # "succeeded"
    BY <1>1, <1>2, LastAttempt
<1>4. adapter' \in AdapterRow /\ adapter'.status = "failed" /\ adapter'.attempt = n
    BY <1>1, <1>2, RowsAre DEF AdapterRow, AdapterStatus
<1>5. AdapterRows'
    BY <1>3, <1>4 DEF AdapterRows
<1>6. QED
    BY <1>1, <1>3, <1>4, <1>5, AdapterStepKeeps DEF Steps, Beginning, Publishing

LEMMA RegistryKeeps ==
    ASSUME BundlesInv, RegistryNext, UNCHANGED reconcileVars
    PROVE  BundlesInv'
<1>1. ASSUME NEW n \in Registry, StageRegistry(n) \/ PublishRegistry(n)
      PROVE  BundlesInv'
    BY <1>1, WritingKeeps, AttemptsAre DEF StageRegistry, PublishRegistry
<1>2. QED
    BY <1>1, LapseKeeps, EnqueueAdapterKeeps, ClaimAdapterKeeps, FailClaimKeeps, OpenBundlesKeeps,
       MarkKeeps, FinishSuccessKeeps, RecordFailureKeeps DEF RegistryNext

(***************************************************************************)
(* Steps of the command at an item.                                        *)
(***************************************************************************)

LEMMA PlansAreFinite ==
    /\ Cardinality(StageFiles) \in Nat
    /\ \A plan \in SUBSET StageFiles :
          Cardinality(plan) \in Nat /\ Cardinality(plan) <= Cardinality(StageFiles)
<1>1. IsFiniteSet({"bundle"}) /\ IsFiniteSet({"bundle"} \cup {"marker"})
    BY FS_Singleton, FS_AddElement
<1>2. IsFiniteSet(StageFiles)
    BY <1>1 DEF StageFiles, FinalFiles
<1>3. QED
    BY <1>2, FS_Subset, FS_CardinalityType

LEMMA ItemSet ==
    ASSUME BundlesInv, NEW a \in Attempts, NEW s \in Surfaces, NEW new \in Item,
           Set(a, s, new) \/ (item' = item /\ new = item[a][s])
    PROVE  /\ item' \in [Attempts -> [Surfaces -> Item]] /\ item'[a][s] = new
           /\ \A b \in Attempts \ {a} : item'[b] = item[b]
           /\ \A t \in Surfaces \ {s} : item'[a][t] = item[a][t]
<1>1. item \in [Attempts -> [Surfaces -> Item]]
    BY AdapterTypes DEF BundlesInv, MaintenanceTyped
<1>2. QED
    BY <1>1 DEF Set

\* An attempt with an active item is not confirmed.
LEMMA ActiveIsOpen ==
    ASSUME BundlesInv, NEW a \in Attempts, NEW s \in Surfaces, Status(a, s) \in Active
    PROVE  a \notin confirmed
BY DEF BundlesInv, ConfirmedFit

LEMMA CommandMoves ==
    ASSUME BundlesInv, NEW a \in Attempts, NEW s \in Surfaces,
           Status(a, s) \in Active, Terminal(a),
           Rest, quarantine' \in {quarantine, quarantine \cup {a}},
           NEW new \in Item, Set(a, s, new) \/ (item' = item /\ new = item[a][s]),
           new.status # "untried",
           DirsTyped', \A b \in Attempts \ {a} : dir'[b] = dir[b],
           dir'[a].at = "none" => dir[a].at = "none",
           command' \in Command,
           \/ command'.step = "next"
           \/ /\ command'.a = a /\ command'.s = s /\ new.status \in Active
              /\ command'.step \in {"journal", "unlink", "advance"} =>
                    new.next < Cardinality(new.plan)
    PROVE  BundlesInv'
<1>1. RowsTyped /\ WritersTyped /\ DirsTyped /\ MaintenanceTyped
    BY AdapterTypes DEF BundlesInv
<1>2. /\ item' \in [Attempts -> [Surfaces -> Item]] /\ item'[a][s] = new
      /\ \A b \in Attempts \ {a} : item'[b] = item[b]
      /\ \A t \in Surfaces \ {s} : item'[a][t] = item[a][t]
    BY ItemSet
<1>3. a \notin confirmed
    BY ActiveIsOpen
<1>4. UNCHANGED <<source, att, manifest, writer, adapter, lapsed, operation, recheck, confirmed>>
    BY DEF Rest, registryVars
<1>5. AdapterTypeOK'
    <2>1. MaintenanceTyped'
        BY <1>1, <1>2, <1>4 DEF MaintenanceTyped
    <2>2. RowsTyped' /\ WritersTyped'
        BY <1>1, <1>4 DEF RowsTyped, WritersTyped
    <2>3. QED
        BY <2>1, <2>2, AdapterTypesNext
<1>6. ImportRows'
    <2>1. source \in Vouched => a # Import
        BY DEF BundlesInv, ImportRows, Terminal
    <2>2. QED
        BY <1>4, <2>1, AttemptsAre DEF BundlesInv, ImportRows, WholeFinal
<1>7. AdapterRows'
    <2>1. adapter.status = "validated" => adapter.attempt \in Attempts \ {a}
        BY <1>1, AttemptsAre DEF BundlesInv, AdapterRows, Terminal, RowsTyped
    <2>2. QED
        BY <1>4, <2>1 DEF BundlesInv, AdapterRows, WholeFinal
<1>8. WritersFit'
    BY <1>4 DEF BundlesInv, WritersFit
<1>9. ConfirmedFit'
    <2>1. confirmed \subseteq Attempts \ {a}
        BY <1>1, <1>3 DEF MaintenanceTyped
    <2>2. QED
        BY <1>2, <1>4, <2>1 DEF BundlesInv, ConfirmedFit, Terminal, Status
<1>10. FinalsFit'
    <2>1. ASSUME NEW b \in Attempts, item'[b]["final"].status # "untried"
          PROVE  b \in manifest
        <3>1. CASE b = a
            <4>1. Status(a, "final") # "untried"
                <5>1. CASE s = "final"
                    BY <5>1 DEF Active
                <5>2. CASE s # "final"
                    BY <1>2, <2>1, <3>1, <5>2 DEF Surfaces, Status
                <5>3. QED
                    BY <5>1, <5>2
            <4>2. QED
                BY <3>1, <4>1 DEF BundlesInv, FinalsFit
        <3>2. CASE b # a
            BY <1>2, <2>1, <3>2 DEF BundlesInv, FinalsFit, Status
        <3>3. QED
            BY <3>1, <3>2
    <2>2. QED
        BY <1>4, <2>1 DEF FinalsFit, Status
<1>11. CommandFits'
    BY <1>2, <1>4 DEF CommandFits, Terminal, Status, Left
<1>12. QED
    BY <1>5, <1>6, <1>7, <1>8, <1>9, <1>10, <1>11 DEF BundlesInv

LEMMA TombstonesTyped ==
    \A s \in Surfaces : {Tombstone(s), Orphan(s)} \subseteq Whereabouts \ {"none"}
BY DEF Surfaces, Tombstone, Orphan, Whereabouts, StageTombstones, FinalTombstones

\* What an item and the command have been.
LEMMA ItemsAre ==
    ASSUME BundlesInv, NEW a \in Attempts, NEW s \in Surfaces
    PROVE  /\ item[a][s] \in Item /\ command \in Command
           /\ dir[a] \in Directory /\ DirsTyped
BY AdapterTypes DEF BundlesInv, MaintenanceTyped, DirsTyped

LEMMA Continues ==
    ASSUME BundlesInv, NEW step \in CommandSteps, Continue(step)
    PROVE  /\ command' \in Command /\ command'.step = step
           /\ command'.a = command.a /\ command'.s = command.s
<1>1. command \in Command
    BY AdapterTypes DEF BundlesInv, MaintenanceTyped
<1>2. QED
    BY <1>1 DEF Continue, Command

LEMMA BlockKeeps ==
    ASSUME BundlesInv, NEW a \in Attempts, NEW s \in Surfaces,
           Status(a, s) \in Active, Terminal(a),
           Rest, quarantine' \in {quarantine, quarantine \cup {a}}, Block(a, s)
    PROVE  BundlesInv'
<1> DEFINE new == [item[a][s] EXCEPT !.status = "blocked"]
<1>1. item[a][s] \in Item /\ dir[a] \in Directory /\ DirsTyped
    BY ItemsAre
<1>2. new \in Item /\ new.status = "blocked"
    BY <1>1 DEF Item, ItemStatus
<1>3. PICK at \in Whereabouts :
          /\ dir' = [dir EXCEPT ![a].at = at]
          /\ at = "none" => dir[a].at = "none"
    <2>1. dir[a].at \in Whereabouts
        BY <1>1 DEF Directory, Whereabouts
    <2>2. QED
        BY <2>1, TombstonesTyped DEF Block
<1>4. /\ DirsTyped' /\ \A b \in Attempts \ {a} : dir'[b] = dir[b]
      /\ dir'[a].at = at
    BY <1>1, <1>3, MovedTo
<1>5. Set(a, s, new)
    BY DEF Block
<1>6. command' \in Command /\ command'.step = "next"
    BY Continues DEF Block, CommandSteps
<1> HIDE DEF new
<1>7. QED
    BY <1>2, <1>3, <1>4, <1>5, <1>6, CommandMoves

LEMMA FreshItems ==
    NewItem \in Item /\ NewItem.status = "registered" /\ NoItem \in Item
<1>1. 0 \in 0 .. Cardinality(StageFiles)
    BY PlansAreFinite
<1>2. NewItem \in Item /\ NewItem.status = "registered"
    BY <1>1 DEF NewItem, Item, ItemStatus
<1>3. NoItem \in Item
    BY <1>2 DEF NoItem, Item, ItemStatus
<1>4. QED
    BY <1>2, <1>3

LEMMA FreshCommand ==
    /\ NoCommand \in Command /\ NoCommand.step = "idle"
    /\ [NoCommand EXCEPT !.step = "next"] \in Command
    /\ [NoCommand EXCEPT !.step = "next"].step = "next"
<1>1. NoCommand \in Command /\ NoCommand.step = "idle"
    BY AttemptsAre DEF NoCommand, Command, CommandSteps, Surfaces
<1>2. QED
    BY <1>1 DEF Command, CommandSteps

\* The command as it starts at an item.
Starting(a, s) == [NoCommand EXCEPT !.a = a, !.s = s]

LEMMA StartsAt ==
    ASSUME NEW a \in Attempts, NEW s \in Surfaces
    PROVE  Starting(a, s) \in Command /\ Starting(a, s).a = a /\ Starting(a, s).s = s
BY FreshCommand DEF Starting, Command

\* The first look.
LEMMA StartItemKeeps ==
    ASSUME BundlesInv, NEW a \in Attempts, NEW s \in Surfaces, StartItem(a, s)
    PROVE  BundlesInv'
<1>1. Status(a, s) \in Active /\ Terminal(a) /\ Rest
    BY DEF StartItem, Authorized
<1>2. CASE Block(a, s) /\ quarantine' \in {quarantine, quarantine \cup {a}}
    BY <1>1, <1>2, BlockKeeps
<1>3. CASE /\ UNCHANGED <<item, dir, quarantine>>
           /\ \/ command' = [Starting(a, s) EXCEPT !.step = "verify", !.seen = dir[a].files]
              \/ \E step \in {"absent", "authorize", "move", "bind", "open"} :
                    command' = [Starting(a, s) EXCEPT !.step = step]
    <2>1. /\ item[a][s] \in Item /\ dir[a] \in Directory /\ DirsTyped
          /\ dir[a].files \in SUBSET StageFiles
        BY ItemsAre DEF Directory
    <2>2. Starting(a, s) \in Command /\ Starting(a, s).a = a /\ Starting(a, s).s = s
        BY StartsAt
    <2>3. PICK step \in {"absent", "verify", "authorize", "move", "bind", "open"} :
              command' \in Command /\ command'.a = a /\ command'.s = s /\ command'.step = step
        <3>1. CASE command' = [Starting(a, s) EXCEPT !.step = "verify", !.seen = dir[a].files]
            BY <2>1, <2>2, <3>1 DEF Command, CommandSteps
        <3>2. ASSUME NEW step \in {"absent", "authorize", "move", "bind", "open"},
                     command' = [Starting(a, s) EXCEPT !.step = step]
              PROVE  /\ command' \in Command
                     /\ command'.a = a /\ command'.s = s /\ command'.step = step
            BY <2>2, <3>2 DEF Command, CommandSteps
        <3>3. QED
            BY <1>3, <3>1, <3>2
    <2>4. DirsTyped' /\ item' = item /\ dir' = dir
        BY <1>3, <2>1 DEF DirsTyped
    <2>5. item[a][s].status \in Active /\ item[a][s].status # "untried"
        BY <1>1 DEF Status, Active
    <2>6. step \notin {"journal", "unlink", "advance"}
        OBVIOUS
    <2>7. QED
        BY <1>1, <1>3, <2>1, <2>3, <2>4, <2>5, <2>6, CommandMoves
<1>4. QED
    BY <1>2, <1>3 DEF StartItem, Starting

(***************************************************************************)
(* The steps of the command at its item.                                   *)
(***************************************************************************)

\* While the command is at an item, the item is active, and of an attempt
\* that is over.
LEMMA AtItem ==
    ASSUME BundlesInv, command.step \notin {"idle", "next"},
           NEW a, a = command.a, NEW s, s = command.s
    PROVE  /\ a \in Attempts /\ s \in Surfaces
           /\ item[a][s] \in Item /\ item[a][s].status \in Active
           /\ Status(a, s) \in Active /\ Terminal(a)
           /\ command \in Command /\ DirsTyped /\ dir[a] \in Directory
<1>1. command \in Command
    BY AdapterTypes DEF BundlesInv, MaintenanceTyped
<1>2. a \in Attempts /\ s \in Surfaces
    BY <1>1 DEF Command
<1>3. Status(a, s) \in Active /\ Terminal(a)
    BY DEF BundlesInv, CommandFits
<1>4. QED
    BY <1>1, <1>2, <1>3, ItemsAre DEF Status

\* A step that leaves the disk alone and goes on at the same item.
LEMMA ItemGoesOn ==
    ASSUME BundlesInv, command.step \notin {"idle", "next"},
           NEW a, a = command.a, NEW s, s = command.s,
           UNCHANGED <<dir, quarantine>>, Rest,
           NEW new \in Item, Set(a, s, new) \/ (item' = item /\ new = item[a][s]),
           new.status \in Active,
           command' \in Command, command'.a = a, command'.s = s,
           command'.step \in {"journal", "unlink", "advance"} =>
                 new.next < Cardinality(new.plan)
    PROVE  BundlesInv'
<1>1. /\ a \in Attempts /\ s \in Surfaces /\ Status(a, s) \in Active /\ Terminal(a)
      /\ DirsTyped
    BY AtItem
<1>2. DirsTyped' /\ dir' = dir
    BY <1>1 DEF DirsTyped
<1>3. new.status # "untried"
    BY DEF Active
<1>4. QED
    BY <1>1, <1>2, <1>3, CommandMoves

LEMMA StatusSteps ==
    ASSUME BundlesInv, NEW a, a = command.a, NEW s, s = command.s,
           RecordVerified(a, s) \/ AuthorizeMove(a, s) \/ BindTombstone(a, s)
    PROVE  BundlesInv'
<1>1. command.step \in {"verify", "authorize", "bind"} /\ UNCHANGED <<dir, quarantine>> /\ Rest
    BY DEF RecordVerified, AuthorizeMove, BindTombstone, At
<1>2. item[a][s] \in Item /\ command.seen \in SUBSET StageFiles
    BY <1>1, AtItem DEF Command
<1>3. PICK new \in Item : Set(a, s, new) /\ new.status \in Active
    <2>1. CASE RecordVerified(a, s)
        <3> DEFINE new == [item[a][s] EXCEPT !.status = "verified", !.plan = command.seen]
        <3>1. new \in Item /\ new.status = "verified"
            BY <1>2 DEF Item, ItemStatus
        <3>2. Set(a, s, new)
            BY <2>1 DEF RecordVerified
        <3> HIDE DEF new
        <3>3. QED
            BY <3>1, <3>2 DEF Active
    <2>2. ASSUME NEW status \in {"authorized", "tombstone_bound"},
                 Set(a, s, [item[a][s] EXCEPT !.status = status])
          PROVE  \E new \in Item : Set(a, s, new) /\ new.status \in Active
        <3> DEFINE new == [item[a][s] EXCEPT !.status = status]
        <3>1. new \in Item /\ new.status = status
            BY <1>2 DEF Item, ItemStatus
        <3>2. Set(a, s, new)
            BY <2>2
        <3> HIDE DEF new
        <3>3. QED
            BY <3>1, <3>2 DEF Active
    <2>3. QED
        BY <2>1, <2>2 DEF AuthorizeMove, BindTombstone
<1>4. PICK step \in {"authorize", "move", "open"} : Continue(step)
    BY DEF RecordVerified, AuthorizeMove, BindTombstone
<1>5. command' \in Command /\ command'.step = step /\ command'.a = a /\ command'.s = s
    BY <1>4, Continues DEF CommandSteps
<1>6. QED
    BY <1>1, <1>3, <1>5, ItemGoesOn

LEMMA MoveKeeps ==
    ASSUME BundlesInv, NEW a, a = command.a, NEW s, s = command.s, MoveToTombstone(a, s)
    PROVE  BundlesInv'
<1>1. command.step = "move" /\ quarantine' = quarantine /\ Rest
    BY DEF MoveToTombstone
<1>2. /\ a \in Attempts /\ s \in Surfaces /\ item[a][s] \in Item /\ item[a][s].status \in Active
      /\ Status(a, s) \in Active /\ Terminal(a) /\ DirsTyped
    BY <1>1, AtItem
<1>3. CASE Block(a, s)
    BY <1>1, <1>2, <1>3, BlockKeeps
<1>4. CASE /\ dir' = [dir EXCEPT ![a].at = Tombstone(s)]
           /\ Continue("bind") /\ item' = item
    <2>1. /\ DirsTyped' /\ \A b \in Attempts \ {a} : dir'[b] = dir[b]
          /\ dir'[a].at # "none"
        <3>1. Tombstone(s) \in Whereabouts /\ Tombstone(s) # "none"
            BY <1>2, TombstonesTyped
        <3>2. /\ DirsTyped' /\ \A b \in Attempts \ {a} : dir'[b] = dir[b]
              /\ dir'[a].at = Tombstone(s)
            BY <1>2, <1>4, <3>1, MovedTo
        <3>3. QED
            BY <3>1, <3>2
    <2>2. command' \in Command /\ command'.step = "bind" /\ command'.a = a /\ command'.s = s
        BY <1>4, Continues DEF CommandSteps
    <2>3. item[a][s].status # "untried"
        BY <1>2 DEF Active
    <2>4. QED
        BY <1>1, <1>2, <1>4, <2>1, <2>2, <2>3, CommandMoves
<1>5. QED
    BY <1>3, <1>4 DEF MoveToTombstone

LEMMA OpenTombstoneKeeps ==
    ASSUME BundlesInv, NEW a, a = command.a, NEW s, s = command.s, OpenTombstone(a, s)
    PROVE  BundlesInv'
<1>1. command.step = "open" /\ quarantine' = quarantine /\ Rest
    BY DEF OpenTombstone, At
<1>2. /\ a \in Attempts /\ s \in Surfaces /\ item[a][s] \in Item /\ item[a][s].status \in Active
      /\ Status(a, s) \in Active /\ Terminal(a)
    BY <1>1, AtItem
<1>3. CASE Block(a, s)
    BY <1>1, <1>2, <1>3, BlockKeeps
<1>4. CASE Continue(IF Left(a, s) THEN "journal" ELSE "remove") /\ UNCHANGED <<item, dir>>
    <2>1. PICK step \in {"journal", "remove"} :
              Continue(step) /\ (step = "journal" => Left(a, s))
        BY <1>4
    <2>2. command' \in Command /\ command'.step = step /\ command'.a = a /\ command'.s = s
        BY <2>1, Continues DEF CommandSteps
    <2>3. command'.step \in {"journal", "unlink", "advance"} =>
              item[a][s].next < Cardinality(item[a][s].plan)
        BY <2>1, <2>2 DEF Left
    <2>4. QED
        BY <1>1, <1>2, <1>4, <2>2, <2>3, ItemGoesOn
<1>5. QED
    BY <1>3, <1>4 DEF OpenTombstone

LEMMA JournalSteps ==
    ASSUME BundlesInv, NEW a, a = command.a, NEW s, s = command.s,
           JournalEntry(a, s) \/ JournalRemoval(a, s)
    PROVE  BundlesInv'
<1>1. command.step \in {"journal", "remove"} /\ UNCHANGED <<dir, quarantine>> /\ Rest
    BY DEF JournalEntry, JournalRemoval, At
<1>2. /\ item[a][s] \in Item /\ item[a][s].status \in Active /\ command \in Command
    BY <1>1, AtItem
<1>3. CASE JournalEntry(a, s)
    <2> DEFINE new == [item[a][s] EXCEPT !.status = "deleting", !.inFlight = TRUE]
               moved == [command EXCEPT !.step = "unlink", !.resumed = item[a][s].inFlight]
    <2>1. /\ new \in Item /\ new.status = "deleting"
          /\ new.next = item[a][s].next /\ new.plan = item[a][s].plan
        BY <1>2 DEF Item, ItemStatus
    <2>2. item[a][s].inFlight \in BOOLEAN
        BY <1>2 DEF Item
    <2>3. moved \in Command /\ moved.a = a /\ moved.s = s
        BY <1>2, <2>2 DEF Command, CommandSteps
    <2>4. Set(a, s, new) /\ command' = moved /\ command.step = "journal"
        BY <1>3 DEF JournalEntry, At
    <2>5. new.next < Cardinality(new.plan)
        BY <2>1, <2>4 DEF BundlesInv, CommandFits, Left
    <2> HIDE DEF new, moved
    <2>6. QED
        BY <1>1, <2>1, <2>3, <2>4, <2>5, ItemGoesOn DEF Active
<1>4. CASE JournalRemoval(a, s)
    <2> DEFINE new == [item[a][s] EXCEPT !.removing = TRUE]
               moved == [command EXCEPT !.step = "rmdir", !.resumed = item[a][s].removing]
    <2>1. new \in Item /\ new.status = item[a][s].status
        BY <1>2 DEF Item
    <2>2. item[a][s].removing \in BOOLEAN
        BY <1>2 DEF Item
    <2>3. moved \in Command /\ moved.a = a /\ moved.s = s /\ moved.step = "rmdir"
        BY <1>2, <2>2 DEF Command, CommandSteps
    <2>4. Set(a, s, new) /\ command' = moved
        BY <1>4 DEF JournalRemoval
    <2> HIDE DEF new, moved
    <2>5. QED
        BY <1>1, <1>2, <2>1, <2>3, <2>4, ItemGoesOn
<1>5. QED
    BY <1>3, <1>4

LEMMA UnlinkKeeps ==
    ASSUME BundlesInv, NEW a, a = command.a, NEW s, s = command.s, UnlinkEntry(a, s)
    PROVE  BundlesInv'
<1>1. command.step = "unlink" /\ quarantine' = quarantine /\ Rest
    BY DEF UnlinkEntry
<1>2. /\ a \in Attempts /\ s \in Surfaces /\ item[a][s] \in Item /\ item[a][s].status \in Active
      /\ Status(a, s) \in Active /\ Terminal(a) /\ DirsTyped /\ dir[a] \in Directory
    BY <1>1, AtItem
<1>3. CASE Block(a, s)
    BY <1>1, <1>2, <1>3, BlockKeeps
<1>4. CASE /\ dir' = [dir EXCEPT ![a].files = @ \ {Entry(a, s)}]
           /\ Continue("advance") /\ item' = item
    <2>1. dir[a].files \ {Entry(a, s)} \in SUBSET StageFiles
        BY <1>2 DEF Directory
    <2>2. dir \in [Attempts -> Directory]
        BY <1>2 DEF DirsTyped
    <2>3. dir' = [dir EXCEPT ![a].files = dir[a].files \ {Entry(a, s)}]
        BY <1>4, <2>2, <1>2
    <2>4. /\ DirsTyped' /\ \A b \in Attempts \ {a} : dir'[b] = dir[b]
          /\ dir'[a].at = dir[a].at
        BY <1>2, <2>1, <2>3, Filled
    <2>5. command' \in Command /\ command'.step = "advance" /\ command'.a = a /\ command'.s = s
        BY <1>4, Continues DEF CommandSteps
    <2>6. item[a][s].status # "untried" /\ item[a][s].next < Cardinality(item[a][s].plan)
        BY <1>1, <1>2 DEF Active, BundlesInv, CommandFits, Left
    <2>7. QED
        BY <1>1, <1>2, <1>4, <2>4, <2>5, <2>6, CommandMoves
<1>5. QED
    BY <1>3, <1>4 DEF UnlinkEntry

LEMMA AdvanceKeeps ==
    ASSUME BundlesInv, NEW a, a = command.a, NEW s, s = command.s, AdvanceJournal(a, s)
    PROVE  BundlesInv'
<1> DEFINE new == [item[a][s] EXCEPT !.next = @ + 1, !.inFlight = FALSE]
<1>1. command.step = "advance" /\ UNCHANGED <<dir, quarantine>> /\ Rest /\ Set(a, s, new)
    BY DEF AdvanceJournal, At
<1>2. item[a][s] \in Item /\ item[a][s].status \in Active
    BY <1>1, AtItem
<1>3. /\ item[a][s].next \in Nat /\ item[a][s].plan \in SUBSET StageFiles
      /\ item[a][s].next < Cardinality(item[a][s].plan)
    <2>1. item[a][s].next \in 0 .. Cardinality(StageFiles) /\ item[a][s].plan \in SUBSET StageFiles
        BY <1>2 DEF Item
    <2>2. Left(a, s)
        BY <1>1 DEF BundlesInv, CommandFits
    <2>3. QED
        BY <2>1, <2>2 DEF Left
<1>4. item[a][s].next + 1 \in 0 .. Cardinality(StageFiles)
    BY <1>3, PlansAreFinite
<1>5. new \in Item /\ new.status = item[a][s].status
    BY <1>2, <1>4 DEF Item
<1>6. PICK step \in {"journal", "remove"} :
          Continue(step) /\ (step = "journal" => new.next < Cardinality(new.plan))
    BY DEF AdvanceJournal
<1>7. command' \in Command /\ command'.step = step /\ command'.a = a /\ command'.s = s
    BY <1>6, Continues DEF CommandSteps
<1> HIDE DEF new
<1>8. command'.step \in {"journal", "unlink", "advance"} => new.next < Cardinality(new.plan)
    BY <1>6, <1>7
<1>9. QED
    BY <1>1, <1>2, <1>5, <1>7, <1>8, ItemGoesOn

LEMMA RemoveKeeps ==
    ASSUME BundlesInv, NEW a, a = command.a, NEW s, s = command.s, RemoveDirectory(a, s)
    PROVE  BundlesInv'
<1>1. command.step = "rmdir" /\ quarantine' = quarantine /\ Rest
    BY DEF RemoveDirectory
<1>2. /\ a \in Attempts /\ s \in Surfaces /\ item[a][s] \in Item /\ item[a][s].status \in Active
      /\ Status(a, s) \in Active /\ Terminal(a) /\ DirsTyped /\ dir[a] \in Directory
    BY <1>1, AtItem
<1>3. CASE Block(a, s)
    BY <1>1, <1>2, <1>3, BlockKeeps
<1>4. CASE /\ Continue("complete") /\ item' = item
           /\ dir' = [dir EXCEPT ![a].at = "gone"] \/ dir' = dir
    <2>1. "gone" \in Whereabouts
        BY DEF Whereabouts
    <2>2. /\ DirsTyped' /\ \A b \in Attempts \ {a} : dir'[b] = dir[b]
          /\ dir'[a].at = "none" => dir[a].at = "none"
        <3>1. CASE dir' = dir
            BY <1>2, <3>1 DEF DirsTyped
        <3>2. CASE dir' = [dir EXCEPT ![a].at = "gone"]
            <4>1. /\ DirsTyped' /\ \A b \in Attempts \ {a} : dir'[b] = dir[b]
                  /\ dir'[a].at = "gone"
                BY <1>2, <2>1, <3>2, MovedTo
            <4>2. QED
                BY <4>1
        <3>3. QED
            BY <1>4, <3>1, <3>2
    <2>3. command' \in Command /\ command'.step = "complete" /\ command'.a = a /\ command'.s = s
        BY <1>4, Continues DEF CommandSteps
    <2>4. item[a][s].status # "untried"
        BY <1>2 DEF Active
    <2>5. QED
        BY <1>1, <1>2, <1>4, <2>2, <2>3, <2>4, CommandMoves
<1>5. QED
    BY <1>3, <1>4 DEF RemoveDirectory

(***************************************************************************)
(* Confirmation, registration, and what the command does between items.    *)
(***************************************************************************)

\* An attempt is confirmed when its surfaces are completed and it has no
\* directory left: neither its stage, nor its final, nor a tombstone.
LEMMA ConfirmSays ==
    ASSUME BundlesInv, NEW a \in Attempts, NEW items, Confirm(a, items), confirmed' # confirmed
    PROVE  /\ confirmed' = confirmed \cup {a}
           /\ items[a]["stage"].status = "completed"
           /\ a \in manifest => items[a]["final"].status = "completed"
           /\ dir[a].at \in {"none", "gone"}
<1>1. dir[a] \in Directory /\ a \in Family(a)
    BY ItemsAre, AttemptsAre DEF Family, Registry, Surfaces
<1>2. \A s \in Surfaces : Holder(a, s) = {} /\ Tombstones(a, s) = {}
    BY DEF Confirm
<1>3. dir[a].at # "stage" /\ dir[a].at # "final"
    BY <1>1, <1>2 DEF Holder, Surfaces
<1>4. dir[a].at \notin {"stage.tombstone", "stage.orphan", "final.tombstone", "final.orphan"}
    BY <1>1, <1>2 DEF Tombstones, Tombstone, Orphan, Surfaces
<1>5. dir[a].at \in {"none", "gone"}
    BY <1>1, <1>3, <1>4 DEF Directory, StageTombstones, FinalTombstones
<1>6. QED
    BY <1>5 DEF Confirm, Surfaces

\* The rows and the disk stay; an attempt that is over may be confirmed.
LEMMA ConfirmKeeps ==
    ASSUME BundlesInv, NEW a \in Attempts, Terminal(a),
           UNCHANGED <<adapterVars, operation, quarantine>>,
           MaintenanceTyped', FinalsFit', CommandFits', Confirm(a, item'),
           a \in confirmed => item' = item,
           \A b \in Attempts \ {a} : item'[b] = item[b]
    PROVE  BundlesInv'
<1>1. RowsTyped /\ WritersTyped /\ DirsTyped /\ MaintenanceTyped
    BY AdapterTypes DEF BundlesInv
<1>2. UNCHANGED <<source, att, manifest, dir, writer, adapter, lapsed>>
    BY DEF adapterVars, sourceVars, registryVars
<1>3. AdapterTypeOK'
    BY <1>1, <1>2, AdapterTypesNext DEF RowsTyped, WritersTyped, DirsTyped
<1>4. ImportRows' /\ AdapterRows' /\ WritersFit'
    BY <1>2 DEF BundlesInv, ImportRows, AdapterRows, WritersFit, WholeFinal
<1>5. ConfirmedFit'
    <2>1. ASSUME NEW b \in confirmed
          PROVE  \A s \in Surfaces : item'[b][s].status \notin Active
        <3>1. item'[b] = item[b]
            BY <1>1 DEF MaintenanceTyped
        <3>2. QED
            BY <3>1 DEF BundlesInv, ConfirmedFit, Status
    <2>2. CASE confirmed' # confirmed
        <3>1. /\ confirmed' = confirmed \cup {a}
              /\ item'[a]["stage"].status = "completed"
              /\ a \in manifest => item'[a]["final"].status = "completed"
              /\ dir[a].at \in {"none", "gone"}
            BY <2>2, ConfirmSays
        <3>2. a \notin manifest => item'[a]["final"].status = "untried"
            BY <1>2 DEF FinalsFit, Status
        <3>3. \A s \in Surfaces : item'[a][s].status \notin Active
            BY <3>1, <3>2 DEF Surfaces, Active
        <3>4. dir[a].at # "gone" => writer[a] \notin Publishing
            BY <3>1 DEF BundlesInv, WritersFit, Beginning, Publishing
        <3>5. QED
            BY <1>2, <2>1, <3>1, <3>3, <3>4 DEF BundlesInv, ConfirmedFit, Terminal, Status
    <2>3. CASE confirmed' = confirmed
        BY <1>2, <2>1, <2>3 DEF BundlesInv, ConfirmedFit, Terminal, Status
    <2>4. QED
        BY <2>2, <2>3
<1>6. QED
    BY <1>3, <1>4, <1>5 DEF BundlesInv

LEMMA CompleteItemKeeps ==
    ASSUME BundlesInv, NEW a, a = command.a, NEW s, s = command.s, CompleteItem(a, s)
    PROVE  BundlesInv'
<1> DEFINE new == [NoItem EXCEPT !.status = "completed"]
<1>1. /\ command.step \in {"complete", "absent"}
      /\ Set(a, s, new) /\ Confirm(a, item')
      /\ command' = [NoCommand EXCEPT !.step = "next"]
      /\ UNCHANGED <<adapterVars, operation, recheck, quarantine>>
    BY DEF CompleteItem, At, Set, adapterVars, sourceVars
<1>2. /\ a \in Attempts /\ s \in Surfaces /\ Status(a, s) \in Active /\ Terminal(a)
    BY <1>1, AtItem
<1>3. new \in Item /\ new.status = "completed"
    BY FreshItems DEF NoItem, Item, ItemStatus
<1> HIDE DEF new
<1>4. /\ item' \in [Attempts -> [Surfaces -> Item]] /\ item'[a][s] = new
      /\ \A b \in Attempts \ {a} : item'[b] = item[b]
      /\ \A t \in Surfaces \ {s} : item'[a][t] = item[a][t]
    BY <1>1, <1>2, <1>3, ItemSet
<1>5. MaintenanceTyped'
    <2>1. command' \in Command
        BY <1>1, FreshCommand
    <2>2. confirmed' \in {confirmed, confirmed \cup {a}}
        BY <1>1 DEF Confirm
    <2>3. MaintenanceTyped
        BY AdapterTypes DEF BundlesInv
    <2>4. QED
        BY <1>1, <1>2, <1>4, <2>1, <2>2, <2>3 DEF MaintenanceTyped
<1>6. FinalsFit'
    <2>1. manifest' = manifest
        BY <1>1 DEF adapterVars, sourceVars
    <2>2. ASSUME NEW b \in Attempts, item'[b]["final"].status # "untried"
          PROVE  item[b]["final"].status # "untried"
        <3>1. CASE b = a /\ s = "final"
            BY <1>2, <3>1 DEF Status, Active
        <3>2. CASE b = a /\ s # "final"
            BY <1>4, <2>2, <3>2 DEF Surfaces
        <3>3. CASE b # a
            BY <1>4, <2>2, <3>3
        <3>4. QED
            BY <3>1, <3>2, <3>3
    <2>3. QED
        BY <2>1, <2>2 DEF BundlesInv, FinalsFit, Status
<1>7. CommandFits'
    BY <1>1 DEF CommandFits, NoCommand
<1>8. a \notin confirmed
    BY <1>2, ActiveIsOpen
<1>9. QED
    BY <1>1, <1>2, <1>4, <1>5, <1>6, <1>7, <1>8, ConfirmKeeps

LEMMA CompleteRecheckKeeps ==
    ASSUME BundlesInv, NEW a \in Attempts, CompleteRecheck(a)
    PROVE  BundlesInv'
<1>1. /\ Terminal(a) /\ Confirm(a, item) /\ recheck' = recheck \ {a}
      /\ UNCHANGED <<adapterVars, operation, item, quarantine, command>>
    BY DEF CompleteRecheck, Authorized
<1>2. Confirm(a, item')
    BY <1>1
<1>3. MaintenanceTyped'
    <2>1. confirmed' \in {confirmed, confirmed \cup {a}}
        BY <1>1 DEF Confirm
    <2>2. MaintenanceTyped
        BY AdapterTypes DEF BundlesInv
    <2>3. QED
        BY <1>1, <2>1, <2>2 DEF MaintenanceTyped
<1>4. FinalsFit' /\ CommandFits'
    BY <1>1 DEF BundlesInv, FinalsFit, CommandFits, Terminal, Status, Left,
                adapterVars, sourceVars
<1>5. QED
    BY <1>1, <1>2, <1>3, <1>4, ConfirmKeeps

\* Only what is not confirmed is registered anew, and a final only of an
\* attempt with a manifest.
LEMMA RegisterReconciliationKeeps ==
    ASSUME BundlesInv, RegisterReconciliation
    PROVE  BundlesInv'
<1>1. /\ AbandonStaleSource /\ operation' = TRUE
      /\ command' = [NoCommand EXCEPT !.step = "next"]
      /\ UNCHANGED <<manifest, dir, writer, adapter, lapsed, quarantine, confirmed>>
    BY DEF RegisterReconciliation, registryVars
<1>2. PICK finals \in SUBSET Attempts, stages \in SUBSET Attempts :
          /\ \A a \in finals : FinalWanted(a)
          /\ \A a \in stages : StageWanted(a)
          /\ item' = [a \in Attempts |-> [s \in Surfaces |->
                IF a \in (IF s = "stage" THEN stages ELSE finals)
                THEN NewItem ELSE item[a][s]]]
          /\ recheck' \subseteq Attempts
    BY DEF RegisterReconciliation, OneFinalEach
<1>3. RowsTyped /\ WritersTyped /\ DirsTyped /\ MaintenanceTyped /\ Import \in Attempts
    BY AdapterTypes, AttemptsAre DEF BundlesInv
<1>4. /\ source' = source \/ (source = "staging" /\ source' = "abandoned")
      /\ att' = att \/ att' = [att EXCEPT ![Import] = "abandoned"]
      /\ source' = source => att' = att
    BY <1>1 DEF AbandonStaleSource
<1>5. /\ att' \in [Attempts -> AttemptStatus]
      /\ \A n \in Attempts \ {Import} : att'[n] = att[n]
      /\ source' = source => att' = att
      /\ \A b \in Attempts : Terminal(b) => Terminal(b)'
    <2>1. att \in [Attempts -> AttemptStatus]
        BY <1>3 DEF RowsTyped
    <2>2. CASE att' = att
        BY <1>4, <2>1, <2>2 DEF Terminal
    <2>3. CASE att' = [att EXCEPT ![Import] = "abandoned"]
        <3>1. /\ att' \in [Attempts -> AttemptStatus] /\ att'[Import] = "abandoned"
              /\ \A n \in Attempts \ {Import} : att'[n] = att[n]
            BY <1>3, <2>1, <2>3 DEF AttemptStatus
        <3>2. QED
            BY <1>4, <3>1 DEF Terminal
    <2>4. QED
        BY <1>4, <2>2, <2>3
<1>6. NewItem \in Item /\ NewItem.status = "registered"
    BY FreshItems
<1>7. AdapterTypeOK'
    <2>1. RowsTyped'
        BY <1>1, <1>3, <1>4, <1>5 DEF RowsTyped, SourceStatus
    <2>2. command' \in Command
        BY <1>1, FreshCommand
    <2>3. item' \in [Attempts -> [Surfaces -> Item]]
        BY <1>2, <1>3, <1>6 DEF MaintenanceTyped
    <2>4. MaintenanceTyped'
        BY <1>1, <1>2, <1>3, <2>2, <2>3 DEF MaintenanceTyped
    <2>5. WritersTyped' /\ DirsTyped'
        BY <1>1, <1>3 DEF WritersTyped, DirsTyped
    <2>6. QED
        BY <2>1, <2>4, <2>5, AdapterTypesNext
<1>8. ImportRows'
    BY <1>1, <1>4 DEF BundlesInv, ImportRows, Vouched, WholeFinal
<1>9. AdapterRows'
    <2>1. \A n \in Registry : att'[n] = att[n]
        BY <1>5, AttemptsAre
    <2>2. adapter.status # "none" => adapter.attempt \in Registry
        BY <1>3 DEF RowsTyped
    <2>3. adapter.status = "validated" => source' = source
        BY <1>4 DEF BundlesInv, AdapterRows
    <2>4. QED
        BY <1>1, <2>1, <2>2, <2>3 DEF BundlesInv, AdapterRows, WholeFinal
<1>10. WritersFit'
    BY <1>1 DEF BundlesInv, WritersFit
<1>11. ConfirmedFit'
    <2>1. ASSUME NEW a \in confirmed
          PROVE  \A s \in Surfaces : item'[a][s] = item[a][s]
        <3>1. a \in Attempts /\ a \notin finals /\ a \notin stages
            BY <1>2, <1>3 DEF MaintenanceTyped, FinalWanted, StageWanted, Eligible
        <3>2. QED
            BY <1>2, <3>1
    <2>2. confirmed \subseteq Attempts
        BY <1>3 DEF MaintenanceTyped
    <2>3. QED
        BY <1>1, <1>5, <2>1, <2>2 DEF BundlesInv, ConfirmedFit, Status
<1>12. FinalsFit'
    <2>1. ASSUME NEW a \in Attempts, item'[a]["final"].status # "untried"
          PROVE  a \in manifest
        <3>1. CASE a \in finals
            BY <1>2, <3>1 DEF FinalWanted
        <3>2. CASE a \notin finals
            <4>1. item'[a]["final"] = item[a]["final"]
                BY <1>2, <3>2 DEF Surfaces
            <4>2. QED
                BY <2>1, <4>1 DEF BundlesInv, FinalsFit, Status
        <3>3. QED
            BY <3>1, <3>2
    <2>2. QED
        BY <1>1, <2>1 DEF FinalsFit, Status
<1>13. CommandFits'
    BY <1>1 DEF CommandFits, NoCommand
<1>14. QED
    BY <1>7, <1>8, <1>9, <1>10, <1>11, <1>12, <1>13 DEF BundlesInv

\* A command that starts again, stops or ends is at no item.
LEMMA CommandAtNoItem ==
    ASSUME BundlesInv, ResumeReconciliation \/ StopCommand \/ FinalizeOperation
    PROVE  BundlesInv'
<1>1. /\ UNCHANGED <<source, att, manifest, dir, writer, adapter, lapsed,
                     item, recheck, quarantine, confirmed>>
      /\ operation' \in {operation, FALSE}
    BY DEF ResumeReconciliation, StopCommand, FinalizeOperation, adapterVars, sourceVars,
           registryVars
<1>2. command' \in Command /\ command'.step \in {"idle", "next"}
    BY FreshCommand DEF ResumeReconciliation, StopCommand, FinalizeOperation
<1>3. RowsTyped /\ WritersTyped /\ DirsTyped /\ MaintenanceTyped
    BY AdapterTypes DEF BundlesInv
<1>4. AdapterTypeOK'
    BY <1>1, <1>2, <1>3, AdapterTypesNext
    DEF RowsTyped, WritersTyped, DirsTyped, MaintenanceTyped
<1>5. CommandFits'
    BY <1>2 DEF CommandFits
<1>6. QED
    BY <1>1, <1>4, <1>5 DEF BundlesInv, ImportRows, AdapterRows, WritersFit, ConfirmedFit,
           FinalsFit, WholeFinal, Terminal, Status

(***************************************************************************)
(* The invariant, and what follows from it.                                *)
(***************************************************************************)

LEMMA ExecuteItemKeeps ==
    ASSUME BundlesInv, ExecuteItem(command.a, command.s)
    PROVE  BundlesInv'
<1>1. PICK a, s : a = command.a /\ s = command.s
    OBVIOUS
<1>2. ExecuteItem(a, s)
    BY <1>1
<1>3. QED
    BY <1>1, <1>2, StatusSteps, MoveKeeps, OpenTombstoneKeeps, JournalSteps, UnlinkKeeps,
       AdvanceKeeps, RemoveKeeps, CompleteItemKeeps DEF ExecuteItem

LEMMA AdapterStep ==
    ASSUME BundlesInv, AdapterNext
    PROVE  BundlesInv'
<1>1. CASE ImportTransaction /\ UNCHANGED <<registryVars, reconcileVars>>
    BY <1>1, ImportTransactionKeeps
<1>2. CASE (StageImport \/ PublishImport) /\ UNCHANGED <<registryVars, reconcileVars>>
    BY <1>2, WritingKeeps, AttemptsAre DEF StageImport, PublishImport
<1>3. CASE RegistryNext /\ UNCHANGED reconcileVars
    BY <1>3, RegistryKeeps
<1>4. CASE ReconcileNext
    BY <1>4, RegisterReconciliationKeeps, CommandAtNoItem, StartItemKeeps, CompleteRecheckKeeps,
       ExecuteItemKeeps DEF ReconcileNext
<1>5. QED
    BY <1>1, <1>2, <1>3, <1>4 DEF AdapterNext

LEMMA AdapterInitial ==
    ASSUME AdapterInit
    PROVE  BundlesInv
<1> USE DEF AdapterInit, SourceInit, RegistryInit, ReconcileInit
<1>1. AdapterTypeOK
    <2>1. NoDirectory \in Directory
        BY DEF NoDirectory, Directory, StageFiles
    <2>2. RowsTyped
        BY AttemptsAre DEF RowsTyped, SourceStatus, AttemptStatus, AdapterRow, AdapterStatus, Import
    <2>3. WritersTyped /\ DirsTyped
        BY <2>1 DEF WritersTyped, DirsTyped, Steps
    <2>4. MaintenanceTyped
        BY FreshItems, FreshCommand DEF MaintenanceTyped
    <2>5. QED
        BY <2>2, <2>3, <2>4, AdapterTypes
<1>2. ImportRows /\ AdapterRows
    BY AttemptsAre DEF ImportRows, AdapterRows, Vouched
<1>3. WritersFit /\ ConfirmedFit
    BY DEF WritersFit, ConfirmedFit, Beginning
<1>4. FinalsFit
    BY DEF FinalsFit, Status, NoItem, NewItem, Surfaces
<1>5. CommandFits
    BY FreshCommand DEF CommandFits
<1>6. QED
    BY <1>1, <1>2, <1>3, <1>4, <1>5 DEF BundlesInv

LEMMA AdapterInvariant == Spec => []BundlesInv
<1>1. Init => BundlesInv
    BY AdapterInitial DEF Init
<1>2. BundlesInv /\ [Next]_vars => BundlesInv'
    <2> SUFFICES ASSUME BundlesInv, [Next]_vars
                 PROVE  BundlesInv'
        OBVIOUS
    <2>1. CASE AdapterNext
        BY <2>1, AdapterStep
    <2>2. CASE UNCHANGED <<adapterVars, reconcileVars>>
        <3>1. UNCHANGED <<source, att, manifest, dir, writer, adapter, lapsed,
                          operation, item, recheck, quarantine, confirmed, command>>
            BY <2>2 DEF adapterVars, sourceVars, registryVars, reconcileVars
        <3>2. QED
            BY <3>1 DEF BundlesInv, AdapterTypeOK, ImportRows, AdapterRows, WritersFit,
                   ConfirmedFit, FinalsFit, CommandFits, WholeFinal, Terminal, Status, Left
    <2>3. QED
        BY <2>1, <2>2 DEF Next, vars
<1>3. QED
    BY <1>1, <1>2, PTL DEF Spec

\* Whatever slow importers, late workers and reconciliations did, what the
\* registry vouches for is on disk (_commit_published, _finish_success), and
\* behind a confirmed clean-up (_confirm_attempt_cleanup) nothing appears.
THEOREM BundlesStandHolds == Spec => []BundlesStand
<1>1. BundlesInv => BundlesStand
    <2> SUFFICES ASSUME BundlesInv
                 PROVE  BundlesStand
        OBVIOUS
    <2>1. source \in Vouched => WholeFinal(Import) /\ att[Import] = "committed"
        BY DEF BundlesInv, ImportRows
    <2>2. ASSUME adapter.status = "validated"
          PROVE  /\ source = "consumed" /\ WholeFinal(adapter.attempt)
                 /\ {n \in Registry : att[n] = "succeeded"} = {adapter.attempt}
        <3>1. adapter.attempt \in Registry
            BY <2>2, RowsAre
        <3>2. /\ source = "consumed" /\ WholeFinal(adapter.attempt)
              /\ att[adapter.attempt] = "succeeded"
              /\ \A n \in Registry : att[n] = "succeeded" => n = adapter.attempt
            BY <2>2 DEF BundlesInv, AdapterRows
        <3>3. QED
            BY <3>1, <3>2
    <2>3. \A a \in confirmed : dir[a].at \in {"none", "stage", "gone"}
        BY DEF BundlesInv, ConfirmedFit
    <2>4. QED
        BY <2>1, <2>2, <2>3 DEF BundlesStand, Vouched
<1>2. QED
    BY <1>1, AdapterInvariant, PTL
=============================================================================
