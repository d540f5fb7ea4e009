---------------------------- MODULE TrainingJob ----------------------------
(***************************************************************************)
(* The Phase 11 training job once its bundle is published: human review,   *)
(* archive, and the retention purge that moves the published files to a    *)
(* tombstone and unlinks them.  PostgreSQL holds the authority (the job    *)
(* row and its purge reservation), the file system holds the bytes, and    *)
(* the two are never changed atomically; a purge is a command-line process *)
(* that may stop between any two of its steps and be started again.        *)
(*                                                                         *)
(* Every action here is one transaction or one file-system step.  The      *)
(* transactions of one job are serialised by the row lock they all take    *)
(* first (SELECT ... FOR UPDATE on the job), so each is a single step.     *)
(* The set  active  that some actions take is the set of jobs that have an *)
(* active Phase 14 execution: it belongs to the module that EXTENDS this   *)
(* one and is read inside the same transaction.                            *)
(*                                                                         *)
(* Abstractions: one department, whose memberships do not expire; the      *)
(* administrator a purge acts for is any effective one; an operation       *)
(* purges one job; a reservation row is its status, the operation that     *)
(* owns it, the job version it expects and whether the stage items of its  *)
(* operation are completed; the retention period is over whenever a purge  *)
(* is registered; the five files of a bundle move and vanish together; the *)
(* second fence of a purge, an adapter registered from the job, only       *)
(* blocks steps and is left to the registry.                               *)
(***************************************************************************)
EXTENDS Naturals, FiniteSets

CONSTANTS
    Jobs,           \* training jobs, all succeeded
    Users,          \* people who may administer the department
    Operators,      \* processes of the purge command
    MaxOperations   \* bound: purge operations per job

ASSUME OperationsAssumption == MaxOperations \in Nat

VARIABLES
    department,     \* "active" or "archived"
    admins,         \* users whose membership is active and administrative
    jobs,           \* the job rows
    reservations,   \* the latest purge reservation of each job
    bytes,          \* where the published bundle of each job is
    cli             \* the memory of each purge process

jobVars == <<department, admins, jobs, reservations, bytes, cli>>

ReviewStatus == {"pending", "approved", "rejected", "archived", "purged"}
ActivePurgeStatus == {"registered", "deletion_authorized", "tombstone_bound"}
ReservationStatus == ActivePurgeStatus \union {"none", "terminalized"}
CliPhase == {"idle", "registered", "staged", "authorized", "moving", "moved",
             "bound", "unlinking", "unlinked"}

JobRow == [review : ReviewStatus, version : Nat]
Reservation == [status : ReservationStatus, operation : Nat, version : Nat,
                staged : BOOLEAN]
Cli == [phase : CliPhase, job : Jobs \union {"none"}, operation : Nat]

NoReservation == [status |-> "none", operation |-> 0, version |-> 0,
                  staged |-> FALSE]
IdleCli == [phase |-> "idle", job |-> "none", operation |-> 0]

JobTypeOK ==
    /\ department \in {"active", "archived"}
    /\ admins \subseteq Users
    /\ jobs \in [Jobs -> JobRow]
    /\ reservations \in [Jobs -> Reservation]
    /\ bytes \in [Jobs -> {"final", "tombstone", "gone"}]
    /\ cli \in [Operators -> Cli]
    /\ \A o \in Operators : cli[o].phase # "idle" => cli[o].job \in Jobs

JobInit ==
    /\ department = "active"
    /\ admins = Users
    /\ jobs = [j \in Jobs |-> [review |-> "pending", version |-> 1]]
    /\ reservations = [j \in Jobs |-> NoReservation]
    /\ bytes = [j \in Jobs |-> "final"]
    /\ cli = [o \in Operators |-> IdleCli]

(***************************************************************************)
(* Department and memberships.                                             *)
(***************************************************************************)

\* Some administrator of the active department can be authorised.
Authorized == department = "active" /\ admins # {}

ArchiveDepartment ==
    /\ Authorized
    /\ department' = "archived"
    /\ UNCHANGED <<admins, jobs, reservations, bytes, cli>>

\* The last effective administrator of an active department is protected.
RevokeAdmin(u) ==
    /\ Authorized
    /\ u \in admins
    /\ admins \ {u} # {}
    /\ admins' = admins \ {u}
    /\ UNCHANGED <<department, jobs, reservations, bytes, cli>>

\* A suspended (not revoked) membership becomes active again.
ReinstateAdmin(u) ==
    /\ Authorized
    /\ u \notin admins
    /\ admins' = admins \union {u}
    /\ UNCHANGED <<department, jobs, reservations, bytes, cli>>

(***************************************************************************)
(* Review.                                                                 *)
(***************************************************************************)

PurgeActive(j) == reservations[j].status \in ActivePurgeStatus

\* Mutant: an approval does not look at the status it replaces.
ReviewTransitionAnyStatus(decision) ==
    CASE decision = "approve" -> [from |-> ReviewStatus, to |-> "approved"]
      [] decision = "reject"  -> [from |-> {"pending"}, to |-> "rejected"]
      [] decision = "archive" -> [from |-> {"approved", "rejected"}, to |-> "archived"]

\* What a review decision requires of the current status and leads to.
ReviewTransition(decision) ==
    CASE decision = "approve" -> [from |-> {"pending"}, to |-> "approved"]
      [] decision = "reject"  -> [from |-> {"pending"}, to |-> "rejected"]
      [] decision = "archive" -> [from |-> {"approved", "rejected"}, to |-> "archived"]

SetReview(j, status) ==
    jobs' = [jobs EXCEPT ![j] = [review |-> status, version |-> @.version + 1]]

ReviewTrainingJob(j, decision, active) ==
    /\ Authorized
    /\ decision = "archive" => j \notin active
    /\ ~PurgeActive(j)
    /\ jobs[j].review \in ReviewTransition(decision).from
    /\ SetReview(j, ReviewTransition(decision).to)
    /\ UNCHANGED <<department, admins, reservations, bytes, cli>>

\* The same archive from the command line.
ArchiveTrainingJob(j, active) ==
    /\ Authorized
    /\ j \notin active
    /\ ~PurgeActive(j)
    /\ jobs[j].review \in {"approved", "rejected"}
    /\ SetReview(j, "archived")
    /\ UNCHANGED <<department, admins, reservations, bytes, cli>>

(***************************************************************************)
(* Purge.  A process keeps its phase, the job and the operation it works   *)
(* on; each of its transactions finds the reservation again and checks it. *)
(***************************************************************************)

\* Phase p of process o, for the operation it already works on.
At(o, p) == cli[o].phase = p

Advance(o, p) == cli' = [cli EXCEPT ![o].phase = p]

Leave(o) == cli' = [cli EXCEPT ![o] = IdleCli]

SetReservation(j, status) ==
    reservations' = [reservations EXCEPT ![j].status = status]

\* _assert_purge_authority: the reservation of this operation is active and
\* the job is still the one it was registered for.
PurgeAuthority(o, statuses) ==
    LET j == cli[o].job IN
    /\ Authorized
    /\ reservations[j].operation = cli[o].operation
    /\ reservations[j].status \in statuses
    /\ reservations[j].version = jobs[j].version
    /\ jobs[j].review \in {"rejected", "archived"}

\* A process that finds no registered operation makes one; two that look at
\* the same time both do, and the index on active reservations keeps them on
\* different jobs.
RegisterPurge(o, j, active) ==
    /\ At(o, "idle")
    /\ Authorized
    /\ ~PurgeActive(j)
    /\ jobs[j].review \in {"rejected", "archived"}
    /\ j \notin active
    /\ reservations[j].operation < MaxOperations
    /\ reservations' = [reservations EXCEPT ![j] =
                          [status |-> "registered",
                           operation |-> @.operation + 1,
                           version |-> jobs[j].version,
                           staged |-> FALSE]]
    /\ cli' = [cli EXCEPT ![o] = [phase |-> "registered", job |-> j,
                                  operation |-> reservations[j].operation + 1]]
    /\ UNCHANGED <<department, admins, jobs, bytes>>

\* A process that finds a registered operation takes it up where it stands:
\* its candidates are the items still registered.
ResumePurge(o, j) ==
    /\ At(o, "idle")
    /\ Authorized
    /\ PurgeActive(j)
    /\ cli' = [cli EXCEPT ![o] =
                 [phase |-> IF reservations[j].staged THEN "staged" ELSE "registered",
                  job |-> j,
                  operation |-> reservations[j].operation]]
    /\ UNCHANGED <<department, admins, jobs, reservations, bytes>>

\* The stages of the job's attempts are removed and their items completed; a
\* second process that removed the same stages finds no registered item.
PersistStages(o) ==
    LET j == cli[o].job IN
    /\ At(o, "registered")
    /\ PurgeAuthority(o, ActivePurgeStatus)
    /\ ~reservations[j].staged
    /\ reservations' = [reservations EXCEPT ![j].staged = TRUE]
    /\ Advance(o, "staged")
    /\ UNCHANGED <<department, admins, jobs, bytes>>

\* A stage that cannot be removed blocks the purge and ends its reservation.
BlockStage(o) ==
    /\ At(o, "registered")
    /\ PurgeAuthority(o, ActivePurgeStatus)
    /\ ~reservations[cli[o].job].staged
    /\ SetReservation(cli[o].job, "terminalized")
    /\ Leave(o)
    /\ UNCHANGED <<department, admins, jobs, bytes>>

\* Deletion of the final bundle is authorised after all stages; a tombstone
\* already bound is only unlinked further.
AuthorizeFinalDeletion(o, active) ==
    LET j == cli[o].job IN
    /\ At(o, "staged")
    /\ PurgeAuthority(o, ActivePurgeStatus)
    /\ j \notin active
    /\ reservations[j].staged
    /\ IF reservations[j].status = "tombstone_bound"
       THEN /\ Advance(o, "bound")
            /\ UNCHANGED reservations
       ELSE /\ Advance(o, "authorized")
            /\ SetReservation(j, "deletion_authorized")
    /\ UNCHANGED <<department, admins, jobs, bytes>>

\* The fence every byte operation passes first, in a transaction of its own.
FenceBeforeBytes(o, active) ==
    /\ \/ At(o, "authorized") /\ Advance(o, "moving")
       \/ At(o, "bound") /\ Advance(o, "unlinking")
    /\ PurgeAuthority(o, {"deletion_authorized", "tombstone_bound"})
    /\ cli[o].job \notin active
    /\ UNCHANGED <<department, admins, jobs, reservations, bytes>>

\* Rename of the final bundle to the tombstone; a tombstone left by an earlier
\* process is verified and used, an absent pair is not evidence of deletion.
MoveFinal(o) ==
    LET j == cli[o].job IN
    /\ At(o, "moving")
    /\ bytes[j] # "gone"
    /\ bytes' = [bytes EXCEPT ![j] = "tombstone"]
    /\ Advance(o, "moved")
    /\ UNCHANGED <<department, admins, jobs, reservations>>

BindTombstone(o) ==
    /\ At(o, "moved")
    /\ PurgeAuthority(o, {"deletion_authorized"})
    /\ SetReservation(cli[o].job, "tombstone_bound")
    /\ Advance(o, "bound")
    /\ UNCHANGED <<department, admins, jobs, bytes>>

\* Unlinking is repeated safely once the tombstone is bound.
UnlinkTombstone(o) ==
    /\ At(o, "unlinking")
    /\ bytes[cli[o].job] # "final"
    /\ bytes' = [bytes EXCEPT ![cli[o].job] = "gone"]
    /\ Advance(o, "unlinked")
    /\ UNCHANGED <<department, admins, jobs, reservations>>

\* Mutant: the purge is recorded for a bound tombstone before its files go.
PersistPurgeWhenBound(o, active) ==
    LET j == cli[o].job IN
    /\ cli[o].phase \in {"bound", "unlinked"}
    /\ PurgeAuthority(o, {"tombstone_bound"})
    /\ j \notin active
    /\ SetReview(j, "purged")
    /\ SetReservation(j, "terminalized")
    /\ Leave(o)
    /\ UNCHANGED <<department, admins, bytes>>

\* Mutant: the reservation ends and the job is not marked.
PersistPurgeForgetsJob(o, active) ==
    LET j == cli[o].job IN
    /\ At(o, "unlinked")
    /\ PurgeAuthority(o, {"tombstone_bound"})
    /\ j \notin active
    /\ SetReservation(j, "terminalized")
    /\ Leave(o)
    /\ UNCHANGED <<department, admins, jobs, bytes>>

PersistPurge(o, active) ==
    LET j == cli[o].job IN
    /\ At(o, "unlinked")
    /\ PurgeAuthority(o, {"tombstone_bound"})
    /\ j \notin active
    /\ SetReview(j, "purged")
    /\ SetReservation(j, "terminalized")
    /\ Leave(o)
    /\ UNCHANGED <<department, admins, bytes>>

\* The process dies, or a step raises and the command ends.
PurgeStops(o) ==
    /\ ~At(o, "idle")
    /\ Leave(o)
    /\ UNCHANGED <<department, admins, jobs, reservations, bytes>>

JobNext(active) ==
    \/ ArchiveDepartment
    \/ \E u \in Users : RevokeAdmin(u) \/ ReinstateAdmin(u)
    \/ \E j \in Jobs :
         \/ \E d \in {"approve", "reject", "archive"} : ReviewTrainingJob(j, d, active)
         \/ ArchiveTrainingJob(j, active)
    \/ \E o \in Operators :
         \/ \E j \in Jobs : RegisterPurge(o, j, active) \/ ResumePurge(o, j)
         \/ PersistStages(o)
         \/ BlockStage(o)
         \/ AuthorizeFinalDeletion(o, active)
         \/ FenceBeforeBytes(o, active)
         \/ MoveFinal(o)
         \/ BindTombstone(o)
         \/ UnlinkTombstone(o)
         \/ PersistPurge(o, active)
         \/ PurgeStops(o)

(***************************************************************************)
(* What the purge promises.                                                *)
(***************************************************************************)

\* The bundle leaves its final path only under a reservation that authorises
\* it, and such a reservation ends only with the job marked purged: no crash
\* of the purge leaves a job that looks retained without its bytes.
BytesLeaveUnderAuthority ==
    \A j \in Jobs :
        bytes[j] # "final" =>
            \/ reservations[j].status \in {"deletion_authorized", "tombstone_bound"}
            \/ jobs[j].review = "purged"

\* A job is marked purged only when its bytes are gone.
PurgedIsGone == \A j \in Jobs : jobs[j].review = "purged" => bytes[j] = "gone"

\* The two together: what leaves the disk leaves under a purge, and what a
\* purge reports as purged has left it.
PurgePromise == BytesLeaveUnderAuthority /\ PurgedIsGone
=============================================================================
