---------------------------- MODULE AdapterPurge ----------------------------
(***************************************************************************)
(* Phase 12.1E-B and E-C: the purge of one adapter, its registry final     *)
(* before its source final, and the release of the upstream dependency     *)
(* behind it.  A purge is a sequence of transactions with steps on the     *)
(* file system between them; any of its commands may stop at any of them,  *)
(* another may resume the operation, also while the first is still at it.  *)
(*                                                                         *)
(* Abstractions: the adapter and its source change status together, in the *)
(* same transactions, so one row stands for both, and an item for its      *)
(* reservation; identities of directories and files are compared by what   *)
(* is still there; the fences of governance, which only registration can   *)
(* meet, are those of AdapterGovernance, and no adapter that is purged has *)
(* a reconciliation item on a final; the unknown directory beside a        *)
(* tombstone is put there and taken away by somebody else.                 *)
(***************************************************************************)
EXTENDS Naturals, FiniteSets

CONSTANTS
    Commands,       \* purge commands that may run at the same time
    Files,          \* number of files of a final
    MaxOperations,  \* bound: purge operations of the adapter
    MaxFaults,      \* bound: errors of the file system and unknown directories
    MaxStops        \* bound: commands that end before their last step

ASSUME PurgeAssumption ==
    /\ Files \in Nat \ {0}
    /\ MaxOperations \in Nat \ {0}
    /\ MaxFaults \in Nat
    /\ MaxStops \in Nat

VARIABLES
    adapter,        \* the adapter row, with that of its source
    operation,      \* the purge operations
    item,           \* their items
    surface,        \* the finals of registry and source, and their tombstones
    sibling,        \* the tombstone namespaces with an unknown directory
    dependency,     \* the upstream dependency of the adapter
    cmd,            \* the memory of each purge command
    faults, stops,  \* how much of the bounds is used
    disturbed       \* history: an error happened or two commands overlapped

rows == <<adapter, operation, item, dependency>>
storage == <<surface, sibling>>
history == <<faults, stops, disturbed>>
vars == <<adapter, operation, item, surface, sibling, dependency, cmd,
          faults, stops, disturbed>>

\* PURGE_SURFACES, in their order.
Surfaces == {"registry", "source"}
Operations == 1 .. MaxOperations
Final == 0
Gone == MaxOperations + 1
NoFile == 0
AllFiles == 1 .. Files

ActiveOperationStatus == {"registered", "deleting"}
ActiveItemStatus == {"registered", "verified", "tombstone_bound", "deleting"}
ItemStatus == ActiveItemStatus \union {"none", "completed", "blocked"}

\* Item row: next counts the files unlinked, inFlight is the file of the
\* recorded unlink, directory the recorded rmdir, bound the tombstone
\* identity, blockedAt the time it was blocked, which nothing clears.
Item == [status : ItemStatus, next : 0 .. Files, inFlight : {NoFile} \union AllFiles,
         directory : BOOLEAN, bound : BOOLEAN, blockedAt : BOOLEAN]
NoItem == [status |-> "none", next |-> 0, inFlight |-> NoFile,
           directory |-> FALSE, bound |-> FALSE, blockedAt |-> FALSE]
RegisteredItem == [NoItem EXCEPT !.status = "registered"]

\* Operation row: pending is the status its snapshot has of the adapter.
Operation == [status : ActiveOperationStatus \union
                       {"none", "completed", "completed_with_blocks"},
              pending : BOOLEAN, expected : Nat]
NoOperation == [status |-> "none", pending |-> FALSE, expected |-> 0]

Phases == {"idle", "mark", "pick", "load", "inspect", "intent", "recheck", "move",
           "bind", "entry", "unlink", "record", "directory", "rmdir", "complete",
           "block", "finalize"}
Command == [phase : Phases, op : {0} \union Operations, surface : Surfaces,
            file : {NoFile} \union AllFiles, retry : BOOLEAN]
IdleCommand == [phase |-> "idle", op |-> 0, surface |-> "registry",
                file |-> NoFile, retry |-> FALSE]

Init ==
    /\ adapter = [status |-> "validated", version |-> 1]
    /\ operation = [n \in Operations |-> NoOperation]
    /\ item = [n \in Operations |-> [s \in Surfaces |-> NoItem]]
    /\ surface = [s \in Surfaces |-> [at |-> Final, files |-> AllFiles]]
    /\ sibling = {}
    /\ dependency = "active"
    /\ cmd = [c \in Commands |-> IdleCommand]
    /\ faults = 0
    /\ stops = 0
    /\ disturbed = FALSE

TypeOK ==
    /\ adapter \in [status : {"validated", "purge_pending", "purged"}, version : Nat]
    /\ operation \in [Operations -> Operation]
    /\ item \in [Operations -> [Surfaces -> Item]]
    /\ surface \in [Surfaces -> [at : Final .. Gone, files : SUBSET AllFiles]]
    /\ sibling \in SUBSET Surfaces
    /\ dependency \in {"active", "released"}
    /\ cmd \in [Commands -> Command]
    /\ faults \in 0 .. MaxFaults
    /\ stops \in 0 .. MaxStops
    /\ disturbed \in BOOLEAN
    /\ \A c \in Commands :
          /\ cmd[c].phase # "idle" <=> cmd[c].op # 0
          /\ cmd[c].phase # "idle" => operation[cmd[c].op].status # "none"
          /\ cmd[c].phase \in {"entry", "unlink", "record"} => cmd[c].file # NoFile

(***************************************************************************)
(* Steps of a command.                                                     *)
(***************************************************************************)

Goto(c, phase) == cmd' = [cmd EXCEPT ![c].phase = phase]
Stop(c) == cmd' = [cmd EXCEPT ![c] = IdleCommand]

\* The item a command works on, and the change of it.
ItemOf(c) == item[cmd[c].op][cmd[c].surface]
WriteItem(c, row) == item' = [item EXCEPT ![cmd[c].op][cmd[c].surface] = row]
SurfaceOf(c) == surface[cmd[c].surface]
WriteSurface(c, s) == surface' = [surface EXCEPT ![cmd[c].surface] = s]

ActiveOperations == {n \in Operations : operation[n].status \in ActiveOperationStatus}
Overlaps(c) == \E d \in Commands \ {c} : cmd[d].phase # "idle"

Begin(c, n) ==
    /\ cmd' = [cmd EXCEPT ![c] = [IdleCommand EXCEPT !.phase = "mark", !.op = n]]
    /\ disturbed' = (disturbed \/ Overlaps(c))

\* Mutant: only an operation no command has worked on is taken up.
ResumeRegistered(c) ==
    /\ cmd[c].phase = "idle"
    /\ adapter.status = "purge_pending"
    /\ \E n \in ActiveOperations : operation[n].status = "registered" /\ Begin(c, n)
    /\ UNCHANGED <<rows, storage, faults, stops>>

\* _register_or_resume: an active operation is taken up as it is.
Resume(c) ==
    /\ cmd[c].phase = "idle"
    /\ adapter.status = "purge_pending"
    /\ \E n \in ActiveOperations : Begin(c, n)
    /\ UNCHANGED <<rows, storage, faults, stops>>

\* _assert_eligible: the adapter may be pending from an operation that
\* ended with blocks, but not while one is active.
Eligible ==
    /\ ActiveOperations = {}
    /\ adapter.status \in {"validated", "purge_pending"}

\* _register_or_resume with nothing to resume.
Register(c) ==
    /\ cmd[c].phase = "idle"
    /\ Eligible
    /\ \E n \in Operations :
          /\ operation[n].status = "none"
          /\ \A m \in 1 .. n - 1 : operation[m].status # "none"
          /\ operation' = [operation EXCEPT ![n] =
                [status |-> "registered", pending |-> adapter.status = "purge_pending",
                 expected |-> adapter.version + 1]]
          /\ item' = [item EXCEPT ![n] = [s \in Surfaces |-> RegisteredItem]]
          /\ Begin(c, n)
    /\ adapter' = [status |-> "purge_pending", version |-> adapter.version + 1]
    /\ UNCHANGED <<dependency, storage, faults, stops>>

MarkOperationDeleting(c) ==
    LET n == cmd[c].op
    IN  /\ cmd[c].phase = "mark"
        /\ operation' = IF operation[n].status = "registered"
                        THEN [operation EXCEPT ![n].status = "deleting"]
                        ELSE operation
        /\ Goto(c, "pick")
        /\ UNCHANGED <<adapter, item, dependency, storage, history>>

\* Mutant: the source is deleted whatever became of the registry item.
SourceHeldNever(c) == FALSE

\* _registry_completed, asked before the source.
SourceHeld(c) ==
    cmd[c].surface = "source" /\ item[cmd[c].op]["registry"].status # "completed"

\* After the item of a surface: the next surface, or the end.
NextSurface(c) ==
    cmd' = [cmd EXCEPT ![c] =
        IF cmd[c].surface = "registry"
        THEN [IdleCommand EXCEPT !.phase = "pick", !.op = cmd[c].op, !.surface = "source"]
        ELSE [IdleCommand EXCEPT !.phase = "finalize", !.op = cmd[c].op, !.surface = "source"]]

\* _ordered_item_ids
PickItem(c) ==
    /\ cmd[c].phase = "pick"
    /\ IF ItemOf(c).status \notin ActiveItemStatus THEN NextSurface(c)
       ELSE IF SourceHeld(c) THEN Goto(c, "block")
       ELSE Goto(c, "load")
    /\ UNCHANGED <<rows, storage, history>>

FirstFile(c) == [cmd EXCEPT ![c].phase = "entry", ![c].file = 1]

\* _load_item, and _bound_surface for an item beyond the move.
LoadItem(c) ==
    /\ cmd[c].phase = "load"
    /\ \/ ItemOf(c).status = "completed" /\ NextSurface(c)
       \/ ItemOf(c).status = "registered" /\ Goto(c, "inspect")
       \/ ItemOf(c).status = "verified" /\ Goto(c, "recheck")
       \/ /\ ItemOf(c).status \in {"tombstone_bound", "deleting", "blocked"}
          /\ IF ItemOf(c).bound THEN cmd' = FirstFile(c) ELSE Goto(c, "block")
    /\ UNCHANGED <<rows, storage, history>>

\* _capture_registered_context and inspect_surface
InspectSurface(c) ==
    /\ cmd[c].phase = "inspect"
    /\ Goto(c, IF ItemOf(c).status = "registered" /\ SurfaceOf(c).at = Final
               THEN "intent" ELSE "block")
    /\ UNCHANGED <<rows, storage, history>>

PersistMoveIntent(c) ==
    /\ cmd[c].phase = "intent"
    /\ IF ItemOf(c).status = "registered"
       THEN /\ WriteItem(c, [ItemOf(c) EXCEPT !.status = "verified"])
            /\ Goto(c, "load")
       ELSE Goto(c, "block") /\ UNCHANGED item
    /\ UNCHANGED <<adapter, operation, dependency, storage, history>>

\* _assert_verified_move_context
RecheckMove(c) ==
    /\ cmd[c].phase = "recheck"
    /\ Goto(c, IF ItemOf(c).status = "verified" THEN "move" ELSE "block")
    /\ UNCHANGED <<rows, storage, history>>

\* The tombstone namespace of the surface holds anything but item n.
OthersInNamespace(c) ==
    \/ cmd[c].surface \in sibling
    \/ SurfaceOf(c).at \in Operations \ {cmd[c].op}

\* move_verified_surface_to_tombstone of a final that is in its place.
MoveSurface(c) ==
    /\ cmd[c].phase = "move"
    /\ SurfaceOf(c).at = Final
    /\ IF OthersInNamespace(c)
       THEN Stop(c) /\ UNCHANGED surface
       ELSE /\ WriteSurface(c, [SurfaceOf(c) EXCEPT !.at = cmd[c].op])
            /\ Goto(c, "bind")
    /\ UNCHANGED <<rows, sibling, history>>

\* open_exact_authorized_recovery_tombstone, when the final is not there.
RecoverTombstone(c) ==
    /\ cmd[c].phase = "move"
    /\ SurfaceOf(c).at # Final
    /\ IF SurfaceOf(c).at # cmd[c].op THEN Goto(c, "block")
       ELSE IF OthersInNamespace(c) THEN Stop(c)
       ELSE Goto(c, IF SurfaceOf(c).files = AllFiles THEN "bind" ELSE "block")
    /\ UNCHANGED <<rows, storage, history>>

\* _bind_move_intent
BindMoveIntent(c) ==
    /\ cmd[c].phase = "bind"
    /\ \/ /\ ItemOf(c).status = "tombstone_bound"
          /\ cmd' = FirstFile(c)
          /\ UNCHANGED item
       \/ /\ ItemOf(c).status = "verified"
          /\ WriteItem(c, [ItemOf(c) EXCEPT !.status = "tombstone_bound", !.bound = TRUE])
          /\ cmd' = FirstFile(c)
       \/ /\ ItemOf(c).status \notin {"tombstone_bound", "verified"}
          /\ Goto(c, "block")
          /\ UNCHANGED item
    /\ UNCHANGED <<adapter, operation, dependency, storage, history>>

\* Mutant: one file too many.
AfterFileTooFar(c) ==
    [cmd EXCEPT ![c].phase = IF cmd[c].file > Files THEN "directory" ELSE "entry",
                ![c].file = IF cmd[c].file > Files THEN NoFile ELSE @ + 1,
                ![c].retry = FALSE]

\* The next entry of the tombstone, or its directory.
AfterFile(c) ==
    [cmd EXCEPT ![c].phase = IF cmd[c].file = Files THEN "directory" ELSE "entry",
                ![c].file = IF cmd[c].file = Files THEN NoFile ELSE @ + 1,
                ![c].retry = FALSE]

\* Mutant: the file is counted as unlinked with the intent.
RecordUnlinkIntentEarly(c) ==
    LET f == cmd[c].file
        row == ItemOf(c)
    IN  /\ cmd[c].phase = "entry"
        /\ row.status # "completed"
        /\ row.next \in {f - 1, f}
        /\ WriteItem(c, [row EXCEPT !.status = "deleting", !.next = f])
        /\ cmd' = [cmd EXCEPT ![c].phase = "unlink", ![c].retry = TRUE]
        /\ UNCHANGED <<adapter, operation, dependency, storage, history>>

\* The first transaction for a file: the intent to unlink it.  It asks for
\* completed only, so a blocked item is taken up again.
RecordUnlinkIntent(c) ==
    LET f == cmd[c].file
        row == ItemOf(c)
    IN  /\ cmd[c].phase = "entry"
        /\ \/ row.status = "completed" /\ NextSurface(c) /\ UNCHANGED item
           \/ /\ row.status # "completed" /\ row.next >= f
              /\ cmd' = AfterFile(c) /\ UNCHANGED item
           \/ /\ row.status # "completed" /\ row.next < f
              /\ row.next # f - 1 \/ row.inFlight \notin {NoFile, f}
              /\ Goto(c, "block") /\ UNCHANGED item
           \/ /\ row.status # "completed" /\ row.next = f - 1
              /\ row.inFlight \in {NoFile, f}
              /\ WriteItem(c, [row EXCEPT !.status = "deleting", !.inFlight = f])
              /\ cmd' = [cmd EXCEPT ![c].phase = "unlink", ![c].retry = row.inFlight = f]
        /\ UNCHANGED <<adapter, operation, dependency, storage, history>>

\* unlink_committed_tombstone_entry: without its directory the command dies.
UnlinkFile(c) ==
    LET f == cmd[c].file
    IN  /\ cmd[c].phase = "unlink"
        /\ \/ SurfaceOf(c).at # cmd[c].op /\ Stop(c) /\ UNCHANGED surface
           \/ /\ SurfaceOf(c).at = cmd[c].op /\ f \in SurfaceOf(c).files
              /\ WriteSurface(c, [SurfaceOf(c) EXCEPT !.files = @ \ {f}])
              /\ Goto(c, "record")
           \/ /\ SurfaceOf(c).at = cmd[c].op /\ f \notin SurfaceOf(c).files
              /\ Goto(c, IF cmd[c].retry THEN "record" ELSE "block")
              /\ UNCHANGED surface
        /\ UNCHANGED <<rows, sibling, history>>

RecordUnlink(c) ==
    LET f == cmd[c].file
    IN  /\ cmd[c].phase = "record"
        /\ WriteItem(c, [ItemOf(c) EXCEPT !.next = IF @ > f THEN @ ELSE f,
                                          !.inFlight = NoFile])
        /\ cmd' = AfterFile(c)
        /\ UNCHANGED <<adapter, operation, dependency, storage, history>>

\* Mutant: a retry does not accept that the directory is gone.
DirectoryMayBeMissingNever(c) == FALSE

\* Only after a rmdir that was recorded earlier.
DirectoryMayBeMissing(c) == ItemOf(c).directory

RecordDirectoryIntent(c) ==
    /\ cmd[c].phase = "directory"
    /\ IF ItemOf(c).next = Files /\ ItemOf(c).inFlight = NoFile
       THEN /\ WriteItem(c, [ItemOf(c) EXCEPT !.directory = TRUE])
            /\ cmd' = [cmd EXCEPT ![c].phase = "rmdir", ![c].retry = DirectoryMayBeMissing(c)]
       ELSE Goto(c, "block") /\ UNCHANGED item
    /\ UNCHANGED <<adapter, operation, dependency, storage, history>>

\* remove_committed_tombstone_directory
RemoveDirectory(c) ==
    /\ cmd[c].phase = "rmdir"
    /\ \/ /\ SurfaceOf(c).at = cmd[c].op /\ SurfaceOf(c).files = {}
          /\ WriteSurface(c, [SurfaceOf(c) EXCEPT !.at = Gone])
          /\ Goto(c, "complete")
       \/ /\ SurfaceOf(c).at = cmd[c].op /\ SurfaceOf(c).files # {}
          /\ Goto(c, "block") /\ UNCHANGED surface
       \/ /\ SurfaceOf(c).at # cmd[c].op
          /\ Goto(c, IF cmd[c].retry THEN "complete" ELSE "block")
          /\ UNCHANGED surface
    /\ UNCHANGED <<rows, sibling, history>>

CompleteItem(c) ==
    /\ cmd[c].phase = "complete"
    /\ WriteItem(c, [ItemOf(c) EXCEPT !.status = "completed", !.inFlight = NoFile])
    /\ NextSurface(c)
    /\ UNCHANGED <<adapter, operation, dependency, storage, history>>

\* Mutant: a completed item is blocked too.
BlockItemAny(c) ==
    /\ cmd[c].phase = "block"
    /\ WriteItem(c, [ItemOf(c) EXCEPT !.status = "blocked", !.blockedAt = TRUE])
    /\ NextSurface(c)
    /\ UNCHANGED <<adapter, operation, dependency, storage, history>>

\* _block_item, after any error of the artifact store.
BlockItem(c) ==
    /\ cmd[c].phase = "block"
    /\ IF ItemOf(c).status = "completed" THEN UNCHANGED item
       ELSE WriteItem(c, [ItemOf(c) EXCEPT !.status = "blocked", !.blockedAt = TRUE])
    /\ NextSurface(c)
    /\ UNCHANGED <<adapter, operation, dependency, storage, history>>

Statuses(n) == {item[n][s].status : s \in Surfaces}
NamespaceEmpty(s) == s \notin sibling /\ surface[s].at \notin Operations

\* Mutant: a blocked item does not keep the adapter from purged.
PurgeEndsBlocked(n) ==
    Statuses(n) \subseteq {"completed", "blocked"}

\* Everything of the operation is gone.
PurgeEnds(n) == Statuses(n) = {"completed"}

\* _finalize_operation.  An operation that has ended, or has an item at
\* work, and a namespace that is not empty leave everything as it is.
FinalizeOperation(c) ==
    LET n == cmd[c].op
        ends == /\ operation[n].status \in ActiveOperationStatus
                /\ Statuses(n) \subseteq {"completed", "blocked"}
                /\ PurgeEnds(n) => \A s \in Surfaces : NamespaceEmpty(s)
    IN  /\ cmd[c].phase = "finalize"
        /\ IF ends
           THEN operation' = [operation EXCEPT ![n].status =
                    IF PurgeEnds(n) THEN "completed" ELSE "completed_with_blocks"]
           ELSE UNCHANGED operation
        /\ IF ends /\ PurgeEnds(n)
           THEN adapter' = [status |-> "purged", version |-> adapter.version + 1]
           ELSE UNCHANGED adapter
        /\ Stop(c)
        /\ UNCHANGED <<item, dependency, storage, history>>

(***************************************************************************)
(* Errors, crashes and the unknown directory.                              *)
(***************************************************************************)

\* An error of the file system that changes nothing.
StoreFails(c) ==
    /\ faults < MaxFaults
    /\ cmd[c].phase \in {"inspect", "unlink", "rmdir"}
    /\ faults' = faults + 1
    /\ disturbed' = TRUE
    /\ Goto(c, "block")
    /\ UNCHANGED <<rows, storage, stops>>

\* The process ends, or its database does not answer.
CommandStops(c) ==
    /\ stops < MaxStops
    /\ cmd[c].phase # "idle"
    /\ stops' = stops + 1
    /\ Stop(c)
    /\ UNCHANGED <<rows, storage, faults, disturbed>>

SiblingAppears(s) ==
    /\ faults < MaxFaults
    /\ s \notin sibling
    /\ sibling' = sibling \union {s}
    /\ faults' = faults + 1
    /\ UNCHANGED <<rows, surface, cmd, stops, disturbed>>

\* "external reviewed removal" of the unknown directory only.
SiblingRemoved(s) ==
    /\ s \in sibling
    /\ sibling' = sibling \ {s}
    /\ UNCHANGED <<rows, surface, cmd, history>>

(***************************************************************************)
(* Phase 12.1E-C: the release of the upstream dependency.                  *)
(***************************************************************************)

\* _expected_purge_snapshot: the snapshot is of a validated adapter.
SnapshotMatches(n) == ~operation[n].pending

\* _successful_operation, _assert_completed_purge: no item was ever blocked.
ProvesPurge(n) ==
    /\ operation[n].status = "completed"
    /\ SnapshotMatches(n)
    /\ adapter.version = operation[n].expected + 1
    /\ \A s \in Surfaces : item[n][s].status = "completed" /\ ~item[n][s].blockedAt

\* _assert_purged_storage_absent
StorageAbsent == \A s \in Surfaces : surface[s].at # Final /\ NamespaceEmpty(s)

\* _assert_lifecycle_and_lineage
LifecyclePurged == ActiveOperations = {} /\ adapter.status = "purged"

Releasable ==
    /\ LifecyclePurged
    /\ Cardinality({n \in Operations : ProvesPurge(n)}) = 1
    /\ StorageAbsent

\* release_adapter_upstream_dependency: its last transaction repeats every
\* check of the first, the storage included.
ReleaseDependency ==
    /\ dependency = "active"
    /\ Releasable
    /\ dependency' = "released"
    /\ adapter' = [adapter EXCEPT !.version = @ + 1]
    /\ UNCHANGED <<operation, item, storage, cmd, history>>

(***************************************************************************)
(* The specification.                                                      *)
(***************************************************************************)

\* purge_adapter_artifacts after its registration.
CommandStep(c) ==
    \/ MarkOperationDeleting(c) \/ PickItem(c) \/ LoadItem(c)
    \/ InspectSurface(c) \/ PersistMoveIntent(c) \/ RecheckMove(c)
    \/ MoveSurface(c) \/ RecoverTombstone(c) \/ BindMoveIntent(c)
    \/ RecordUnlinkIntent(c) \/ UnlinkFile(c) \/ RecordUnlink(c)
    \/ RecordDirectoryIntent(c) \/ RemoveDirectory(c) \/ CompleteItem(c)
    \/ BlockItem(c) \/ FinalizeOperation(c)

Next ==
    \/ \E c \in Commands :
          Register(c) \/ Resume(c) \/ CommandStep(c) \/ StoreFails(c) \/ CommandStops(c)
    \/ \E s \in Surfaces : SiblingAppears(s) \/ SiblingRemoved(s)
    \/ ReleaseDependency

Spec == Init /\ [][Next]_vars

(***************************************************************************)
(* Properties.                                                             *)
(***************************************************************************)

\* The registry goes before the source, and neither before the intent to
\* move it is recorded: a final that has left its place has an item beyond
\* verified, or one that was blocked behind it, of a purge of an adapter
\* nobody can use any more; the source leaves when the registry is gone.
DeletionOrder ==
    /\ \A s \in Surfaces :
          surface[s].at # Final =>
              /\ adapter.status # "validated"
              /\ \E n \in Operations :
                    item[n][s].status \notin {"none", "registered"}
    /\ surface["source"].at # Final => surface["registry"].at = Gone

\* The journal is behind the files and never ahead of them: what it counts
\* as unlinked is gone, and of the rest only the file of an intent that is
\* recorded or that a command still carries may be missing.
JournalAgrees ==
    \A n \in Operations, s \in Surfaces :
        surface[s].at = n =>
            /\ \A f \in 1 .. item[n][s].next : f \notin surface[s].files
            /\ \A f \in item[n][s].next + 1 .. Files :
                  f \in surface[s].files \/ f = item[n][s].next + 1

\* A completed item, a purged adapter and a released dependency mean that
\* the bytes are gone, for every number of commands that worked on them.
GoneForGood ==
    /\ \A n \in Operations, s \in Surfaces :
          item[n][s].status = "completed" => surface[s].at = Gone
    /\ adapter.status = "purged" => \A s \in Surfaces : surface[s].at = Gone
    /\ dependency = "released" => adapter.status = "purged"

\* What the rows say of the bytes is so, whichever commands died or crossed
\* on them: the journal while a surface goes, the statuses once it is gone
\* (adapter_purge._execute_item, _finalize_operation).
ItemsTellBytes == JournalAgrees /\ GoneForGood

\* "A crash after an unlink or directory removal is accepted only for the
\* matching durable step": commands that never overlap, on a file system
\* that works, may stop anywhere, and none of them ever blocks an item.
CrashesNeverBlock ==
    ~disturbed =>
        \A n \in Operations, s \in Surfaces : item[n][s].status # "blocked"

\* An operation that ended, and an item that completed, are history: no
\* late command takes them up again; no final comes back to its place.
PurgeHistory ==
    [][/\ \A n \in Operations :
             operation[n].status \in {"completed", "completed_with_blocks"} =>
                 operation'[n] = operation[n]
       /\ \A n \in Operations, s \in Surfaces :
             item[n][s].status = "completed" => item'[n][s].status = "completed"
       /\ \A s \in Surfaces : surface[s].at # Final => surface'[s].at # Final
       /\ adapter.status = "purged" => adapter'.status = "purged"]_vars

\* "Historical failed or blocked E-B operations do not prevent a single
\* unambiguous successful operation from proving release authority."
CompletedPurgeReleases ==
    /\ adapter.status = "purged"
    /\ dependency = "active"
    /\ StorageAbsent
    => Releasable
=============================================================================
