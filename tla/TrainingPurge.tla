---------------------------- MODULE TrainingPurge ----------------------------
(***************************************************************************)
(* The purge of training jobs in detail: several jobs in one operation,    *)
(* the bundle of each moved to a tombstone and unlinked file by file with  *)
(* a journal in its reservation.  Any command may stop at any step, and    *)
(* any other, now or later, works on with the same operation.              *)
(*                                                                         *)
(* TrainingJob has the same purge with its fences, one job at a time and   *)
(* its bundle in one piece.                                                *)
(*                                                                         *)
(* Abstractions: every job is retained long enough, rejected or archived,  *)
(* which no purge can meet changed (TrainingJob); one item for all stages  *)
(* of a job, as TrainingPublication has their removal; of the identity of  *)
(* a bundle, whether somebody else has touched it; files are numbered in   *)
(* the order they are unlinked.                                            *)
(***************************************************************************)
EXTENDS Naturals

CONSTANTS
    RetainedJobs,   \* jobs that may be purged
    BundleFiles,    \* number of files of a bundle
    PurgeCommands,  \* commands that may run at the same time
    MaxPurges,      \* bound: operations
    MaxMishaps      \* bound: stages that stay, bundles touched, commands that die

ASSUME TrainingPurgeAssumption ==
    /\ BundleFiles \in Nat \ {0}
    /\ MaxPurges \in Nat /\ MaxMishaps \in Nat

VARIABLES
    purge,          \* the last operation: its number and its status
    reservation,    \* the reservation of each job in it
    stageItem,      \* the item of its stages
    journal,        \* what the reservation says of the tombstone
    purgedJobs,     \* the jobs that are marked purged
    bundle,         \* the final bundle of each job, or its tombstone
    touched,        \* the jobs whose bundle somebody else has changed
    command,        \* the memory of each command
    mishaps         \* how much of the bound is used

purgeRows == <<purge, reservation, stageItem, journal, purgedJobs>>
trainingPurgeVars == <<purgeRows, bundle, touched, command, mishaps>>

AllOf == 1 .. BundleFiles
After(f) == {g \in AllOf : g > f}

ActiveReservation == {"registered", "deletion_authorized", "tombstone_bound"}
Bound(j) == reservation[j] = "tombstone_bound"

\* next counts the files unlinked, inFlight is unlinking_file.
NoJournal == [next |-> 0, inFlight |-> FALSE]

PurgeSteps == {"idle", "prepare", "record", "authorize", "fence", "look",
               "rename", "capture", "bind", "begin", "check", "list", "unlink",
               "journal", "open", "rmdir", "finish"}

\* The steps on one job.
JobSteps == {"look", "rename", "capture", "check", "list", "unlink", "journal", "open", "rmdir"}

\* jobs: the stages to remove, then the finals to move; the sets are the
\* outcomes, seen is the journal as it was read for the job.
IdleCommand == [step |-> "idle", op |-> 0, jobs |-> {}, blocked |-> {}, bound |-> {},
                done |-> {}, failed |-> {}, job |-> "none", seen |-> 0]

PurgeInit ==
    /\ purge = [op |-> 0, status |-> "none"]
    /\ reservation = [j \in RetainedJobs |-> "none"]
    /\ stageItem = [j \in RetainedJobs |-> "none"]
    /\ journal = [j \in RetainedJobs |-> NoJournal]
    /\ purgedJobs = {}
    /\ bundle = [j \in RetainedJobs |-> [at |-> "final", of |-> 0, files |-> AllOf]]
    /\ touched = {}
    /\ command = [c \in PurgeCommands |-> IdleCommand]
    /\ mishaps = 0

AtStep(c, step) == command[c].step = step
Go(c, step) == command' = [command EXCEPT ![c].step = step]

\* A transaction that is refused raises, and the command ends.
End(c) == command' = [command EXCEPT ![c] = IdleCommand]

\* _locked_operation
Current(c) == purge = [op |-> command[c].op, status |-> "registered"]

\* _close_purge_operation_if_terminal
Closed(items) ==
    IF \E j \in RetainedJobs : reservation'[j] \in ActiveReservation
    THEN purge
    ELSE [purge EXCEPT !.status =
             IF \E j \in RetainedJobs : items[j] = "blocked"
             THEN "completed_with_blocks" ELSE "completed"]

(***************************************************************************)
(* _register_candidates                                                    *)
(***************************************************************************)

Start(c, op, items) ==
    command' = [command EXCEPT ![c] =
        [IdleCommand EXCEPT !.step = "prepare", !.op = op,
                            !.jobs = {j \in RetainedJobs : items[j] = "registered"}]]

\* A limit, and rows somebody has locked, leave out any jobs.
RegisterTrainingPurge(c) ==
    /\ AtStep(c, "idle")
    /\ purge.status # "registered" /\ purge.op < MaxPurges
    /\ \E chosen \in SUBSET (RetainedJobs \ purgedJobs) :
          /\ chosen # {}
          /\ reservation' = [j \in RetainedJobs |->
                IF j \in chosen THEN "registered" ELSE "none"]
          /\ stageItem' = [j \in RetainedJobs |->
                IF j \in chosen THEN "registered" ELSE "none"]
    /\ purge' = [op |-> purge.op + 1, status |-> "registered"]
    /\ journal' = [j \in RetainedJobs |-> NoJournal]
    /\ Start(c, purge.op + 1, stageItem')
    /\ UNCHANGED <<purgedJobs, bundle, touched, mishaps>>

\* The department has one registered operation; its final items stay
\* registered until it ends.
ResumeTrainingPurge(c) ==
    /\ AtStep(c, "idle")
    /\ purge.status = "registered"
    /\ Start(c, purge.op, stageItem)
    /\ UNCHANGED <<purgeRows, bundle, touched, mishaps>>

(***************************************************************************)
(* _execute_purge                                                          *)
(***************************************************************************)

\* _authorize_purge_prerequisites, and _remove_candidates of the stages: what
\* of them cannot be removed depends on nobody else.
PreparePurge(c) ==
    /\ AtStep(c, "prepare")
    /\ IF Current(c)
       THEN \E blocked \in SUBSET command[c].jobs :
               /\ blocked # {} => mishaps < MaxMishaps
               /\ mishaps' = IF blocked = {} THEN mishaps ELSE mishaps + 1
               /\ command' = [command EXCEPT ![c].step = "record", ![c].blocked = blocked]
       ELSE End(c) /\ UNCHANGED mishaps
    /\ UNCHANGED <<purgeRows, bundle, touched>>

\* _persist_purge_stage_outcomes: an item that another command has recorded
\* refuses all of them.
RecordStages(c) ==
    /\ AtStep(c, "record")
    /\ IF Current(c) /\ \A j \in command[c].jobs : stageItem[j] = "registered"
       THEN /\ stageItem' = [j \in RetainedJobs |->
                  IF j \notin command[c].jobs THEN stageItem[j]
                  ELSE IF j \in command[c].blocked THEN "blocked" ELSE "completed"]
            /\ reservation' = [j \in RetainedJobs |->
                  IF j \in command[c].blocked THEN "terminalized" ELSE reservation[j]]
            /\ purge' = Closed(stageItem')
            /\ IF command[c].blocked = {} THEN Go(c, "authorize") ELSE End(c)
       ELSE End(c) /\ UNCHANGED <<purge, reservation, stageItem>>
    /\ UNCHANGED <<journal, purgedJobs, bundle, touched, mishaps>>

\* _authorize_final_deletion; an operation that closes here has none.
AuthorizeFinals(c) ==
    LET finals == {j \in RetainedJobs : reservation[j] \in {"registered", "deletion_authorized"}
                                            /\ stageItem[j] = "completed"}
    IN  /\ AtStep(c, "authorize")
        /\ IF Current(c)
           THEN /\ reservation' = [j \in RetainedJobs |->
                      IF j \in finals THEN "deletion_authorized" ELSE reservation[j]]
                /\ command' = [command EXCEPT ![c].step = "fence", ![c].jobs = finals]
           ELSE End(c) /\ UNCHANGED reservation
        /\ UNCHANGED <<purge, stageItem, journal, purgedJobs, bundle, touched, mishaps>>

(***************************************************************************)
(* _bind_final_tombstones                                                  *)
(***************************************************************************)

\* _assert_no_active_execution_before_bytes, of one job of the operation.
Fenced(c, j) ==
    /\ purge.op = command[c].op
    /\ reservation[j] \in {"deletion_authorized", "tombstone_bound"}

FenceMove(c) ==
    /\ AtStep(c, "fence")
    /\ \/ command[c].jobs = {} /\ Go(c, "bind")
       \/ \E j \in command[c].jobs :
             IF Fenced(c, j)
             THEN command' = [command EXCEPT ![c].step = "look", ![c].job = j]
             ELSE End(c)
    /\ UNCHANGED <<purgeRows, bundle, touched, mishaps>>

\* The outcome of one final; one that fails stays fenced.
Moved(c, captured) ==
    LET j == command[c].job
    IN  command' = [command EXCEPT ![c].step = "fence", ![c].jobs = @ \ {j},
                                   ![c].bound = IF captured THEN @ \cup {j} ELSE @]

\* _verify_files: nobody has touched what is there.
Verifies(j) == bundle[j].files = AllOf /\ j \notin touched
InTombstone(c, j) == bundle[j].at = "tombstone" /\ bundle[j].of = command[c].op

\* prepare_authorized_training_job_tombstone, in three steps.
LookAtFinal(c) ==
    LET j == command[c].job
    IN  /\ AtStep(c, "look")
        /\ \/ bundle[j].at = "final" /\ Verifies(j) /\ Go(c, "rename")
           \/ InTombstone(c, j) /\ Go(c, "capture")
           \/ /\ ~InTombstone(c, j) /\ ~(bundle[j].at = "final" /\ Verifies(j))
              /\ Moved(c, FALSE)
        /\ UNCHANGED <<purgeRows, bundle, touched, mishaps>>

RenameFinal(c) ==
    LET j == command[c].job
    IN  /\ AtStep(c, "rename")
        /\ IF bundle[j].at = "final"
           THEN /\ bundle' = [bundle EXCEPT ![j].at = "tombstone", ![j].of = command[c].op]
                /\ Go(c, "capture")
           ELSE Moved(c, FALSE) /\ UNCHANGED bundle
        /\ UNCHANGED <<purgeRows, touched, mishaps>>

CaptureTombstone(c) ==
    /\ AtStep(c, "capture")
    /\ Moved(c, InTombstone(c, command[c].job) /\ Verifies(command[c].job))
    /\ UNCHANGED <<purgeRows, bundle, touched, mishaps>>

\* _persist_tombstone_bindings
BindFinals(c) ==
    LET bound == command[c].bound
    IN  /\ AtStep(c, "bind")
        /\ IF bound = {} \/ (Current(c) /\ \A j \in bound : reservation[j] = "deletion_authorized")
           THEN /\ reservation' = [j \in RetainedJobs |->
                      IF j \in bound THEN "tombstone_bound" ELSE reservation[j]]
                /\ Go(c, "begin")
           ELSE End(c) /\ UNCHANGED reservation
        /\ UNCHANGED <<purge, stageItem, journal, purgedJobs, bundle, touched, mishaps>>

(***************************************************************************)
(* _remove_bound_tombstones                                                *)
(***************************************************************************)

\* _begin_bound_tombstone_step: one bound job without an outcome, and the
\* intent to unlink its next file.
BeginStep(c) ==
    LET open == {j \in RetainedJobs : Bound(j)} \ (command[c].done \cup command[c].failed)
    IN  /\ AtStep(c, "begin")
        /\ \/ ~Current(c) /\ End(c) /\ UNCHANGED journal
           \/ Current(c) /\ open = {} /\ Go(c, "finish") /\ UNCHANGED journal
           \/ /\ Current(c)
              /\ \E j \in open :
                    /\ journal' = [journal EXCEPT ![j].inFlight = @ \/ journal[j].next < BundleFiles]
                    /\ command' = [command EXCEPT ![c].step = "check", ![c].job = j,
                                                  ![c].seen = journal[j].next]
        /\ UNCHANGED <<purge, reservation, stageItem, purgedJobs, bundle, touched, mishaps>>

FenceUnlink(c) ==
    /\ AtStep(c, "check")
    /\ IF Fenced(c, command[c].job)
       THEN Go(c, IF command[c].seen < BundleFiles THEN "list" ELSE "open")
       ELSE End(c)
    /\ UNCHANGED <<purgeRows, bundle, touched, mishaps>>

\* An error of the artifact store leaves the job bound.
Outcome(c, ok) ==
    LET j == command[c].job
    IN  command' = [command EXCEPT ![c].step = "begin",
                                   ![c].done = IF ok THEN @ \cup {j} ELSE @,
                                   ![c].failed = IF ok THEN @ ELSE @ \cup {j}]

\* A command died behind its unlink: only the file of the intent is missing.
UnlinkedNever(c) == FALSE
Unlinked(c) == bundle[command[c].job].files = After(command[c].seen + 1)

\* unlink_bound_training_job_tombstone_file, in two steps.
ListTombstone(c) ==
    LET j == command[c].job
        exact == InTombstone(c, j) /\ j \notin touched
        ahead == bundle[j].files = After(command[c].seen)
    IN  /\ AtStep(c, "list")
        /\ \/ exact /\ Unlinked(c) /\ Go(c, "journal")
           \/ exact /\ ahead /\ Go(c, "unlink")
           \/ ~(exact /\ (Unlinked(c) \/ ahead)) /\ Outcome(c, FALSE)
        /\ UNCHANGED <<purgeRows, bundle, touched, mishaps>>

UnlinkTombstoneFile(c) ==
    LET j == command[c].job
        file == command[c].seen + 1
    IN  /\ AtStep(c, "unlink")
        /\ IF InTombstone(c, j) /\ file \in bundle[j].files
           THEN /\ bundle' = [bundle EXCEPT ![j].files = @ \ {file}]
                /\ Go(c, "journal")
           ELSE Outcome(c, FALSE) /\ UNCHANGED bundle
        /\ UNCHANGED <<purgeRows, touched, mishaps>>

\* What a recorded unlink writes.
RecordedIntentStays(file) == [next |-> file, inFlight |-> TRUE]
Recorded(file) == [next |-> file, inFlight |-> FALSE]

\* The journal is still the one the command read.
JournalReadAnyway(c) == TRUE
JournalRead(c) ==
    journal[command[c].job] = [next |-> command[c].seen, inFlight |-> TRUE]

\* _finish_bound_tombstone_unlink
FinishUnlink(c) ==
    LET j == command[c].job
    IN  /\ AtStep(c, "journal")
        /\ IF Current(c) /\ Bound(j) /\ JournalRead(c)
           THEN /\ journal' = [journal EXCEPT ![j] = Recorded(command[c].seen + 1)]
                /\ Go(c, "begin")
           ELSE End(c) /\ UNCHANGED journal
        /\ UNCHANGED <<purge, reservation, stageItem, purgedJobs, bundle, touched, mishaps>>

\* remove_bound_training_job_tombstone_directory, in two steps.
OpenTombstone(c) ==
    LET j == command[c].job
    IN  /\ AtStep(c, "open")
        /\ \/ ~InTombstone(c, j) /\ Outcome(c, TRUE)
           \/ InTombstone(c, j) /\ bundle[j].files # {} /\ Outcome(c, FALSE)
           \/ InTombstone(c, j) /\ bundle[j].files = {} /\ Go(c, "rmdir")
        /\ UNCHANGED <<purgeRows, bundle, touched, mishaps>>

RemoveTombstone(c) ==
    LET j == command[c].job
        there == InTombstone(c, j) /\ bundle[j].files = {}
    IN  /\ AtStep(c, "rmdir")
        /\ bundle' = IF there THEN [bundle EXCEPT ![j].at = "gone"] ELSE bundle
        /\ Outcome(c, there)
        /\ UNCHANGED <<purgeRows, touched, mishaps>>

\* The jobs a command reports as purged.
PurgedAnyway(c) == command[c].done \cup command[c].failed
PurgedBy(c) == command[c].done

\* _persist_purge_final_outcomes: one job that is not bound any more refuses
\* all of them; those that failed stay as they are.
FinishPurge(c) ==
    LET outcomes == command[c].done \cup command[c].failed
    IN  /\ AtStep(c, "finish")
        /\ IF Current(c) /\ outcomes # {} /\ \A j \in outcomes : Bound(j)
           THEN /\ purgedJobs' = purgedJobs \cup PurgedBy(c)
                /\ reservation' = [j \in RetainedJobs |->
                      IF j \in PurgedBy(c) THEN "terminalized" ELSE reservation[j]]
                /\ purge' = Closed(stageItem)
           ELSE UNCHANGED <<purge, reservation, purgedJobs>>
        /\ End(c)
        /\ UNCHANGED <<stageItem, journal, bundle, touched, mishaps>>

(***************************************************************************)
(* Crashes, and somebody else in the file system.                          *)
(***************************************************************************)

CommandDies(c) ==
    /\ ~AtStep(c, "idle") /\ mishaps < MaxMishaps
    /\ mishaps' = mishaps + 1
    /\ End(c)
    /\ UNCHANGED <<purgeRows, bundle, touched>>

TouchBundle(j) ==
    /\ j \notin touched /\ bundle[j].files # {} /\ mishaps < MaxMishaps
    /\ mishaps' = mishaps + 1
    /\ touched' = touched \cup {j}
    /\ UNCHANGED <<purgeRows, bundle, command>>

CommandStep(c) ==
    \/ PreparePurge(c) \/ RecordStages(c) \/ AuthorizeFinals(c)
    \/ FenceMove(c) \/ LookAtFinal(c) \/ RenameFinal(c) \/ CaptureTombstone(c)
    \/ BindFinals(c) \/ BeginStep(c) \/ FenceUnlink(c) \/ ListTombstone(c)
    \/ UnlinkTombstoneFile(c) \/ FinishUnlink(c) \/ OpenTombstone(c)
    \/ RemoveTombstone(c) \/ FinishPurge(c)

PurgeNext ==
    \/ \E c \in PurgeCommands :
          \/ RegisterTrainingPurge(c) \/ ResumeTrainingPurge(c)
          \/ CommandStep(c) \/ CommandDies(c)
    \/ \E j \in RetainedJobs : TouchBundle(j)

PurgeSpec == PurgeInit /\ [][PurgeNext]_trainingPurgeVars

(***************************************************************************)
(* Properties.                                                             *)
(***************************************************************************)

PurgeCommand ==
    [step : PurgeSteps, op : Nat, jobs : SUBSET RetainedJobs,
     blocked : SUBSET RetainedJobs, bound : SUBSET RetainedJobs,
     done : SUBSET RetainedJobs, failed : SUBSET RetainedJobs,
     job : RetainedJobs \cup {"none"}, seen : 0 .. BundleFiles]

PurgeTypeOK ==
    /\ purge \in [op : Nat, status : {"none", "registered", "completed",
                                      "completed_with_blocks"}]
    /\ reservation \in [RetainedJobs -> ActiveReservation \cup {"none", "terminalized"}]
    /\ stageItem \in [RetainedJobs -> {"none", "registered", "completed", "blocked"}]
    /\ journal \in [RetainedJobs -> [next : 0 .. BundleFiles, inFlight : BOOLEAN]]
    /\ \A j \in RetainedJobs : journal[j].inFlight => journal[j].next < BundleFiles
    /\ purgedJobs \subseteq RetainedJobs
    /\ bundle \in [RetainedJobs -> [at : {"final", "tombstone", "gone"}, of : Nat,
                                    files : SUBSET AllOf]]
    /\ touched \subseteq RetainedJobs
    /\ command \in [PurgeCommands -> PurgeCommand]
    /\ \A c \in PurgeCommands : command[c].step \in JobSteps => command[c].job \in RetainedJobs
    /\ mishaps \in Nat

\* The journal tells the files of a tombstone: only the one in flight may be
\* gone already.
JournalTells(j) ==
    \/ bundle[j].files = After(journal[j].next)
    \/ journal[j].inFlight /\ bundle[j].files = After(journal[j].next + 1)

\* The rows of a purge tell where every bundle is, whichever commands died or
\* crossed on it: a final is whole; a tombstone belongs to the registered
\* operation and to a reservation that is authorized, and is whole, or bound,
\* with the files its journal tells; what is gone is purged, or bound with
\* every file recorded (_begin_bound_tombstone_step to
\* _persist_purge_final_outcomes, prepare_authorized_training_job_tombstone).
PurgeBooks == \A j \in RetainedJobs :
    /\ bundle[j].at = "final" =>
          bundle[j].files = AllOf /\ ~Bound(j) /\ j \notin purgedJobs
    /\ bundle[j].at = "tombstone" =>
          /\ purge = [op |-> bundle[j].of, status |-> "registered"]
          /\ \/ reservation[j] = "deletion_authorized" /\ bundle[j].files = AllOf
             \/ Bound(j) /\ JournalTells(j)
    /\ bundle[j].at = "gone" =>
          j \in purgedJobs \/ (Bound(j) /\ journal[j].next = BundleFiles)
=============================================================================
