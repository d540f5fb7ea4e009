------------------------ MODULE TrainingPublication ------------------------
(***************************************************************************)
(* The Phase 11 queue: workers claim a training job under a lease, build a *)
(* bundle in a private stage of their attempt, rename the stage to the one *)
(* final path of the job and commit success; a replacement worker cleans   *)
(* up behind the attempt it reclaimed, and the reconcile command behind    *)
(* every attempt that was given up.  Rows and directories are never        *)
(* changed together, and a worker that lost its lease may still be at work *)
(* on its directory when others clean it.                                  *)
(*                                                                         *)
(* A transaction locks the job row (or is a single UPDATE) and is one      *)
(* step; so is a directory operation.  Before every operation the worker   *)
(* renews its lease (Guard) and may stall after that for any time, which   *)
(* is what the lease allows.                                               *)
(*                                                                         *)
(* Abstractions: one job; a claim (attempt id, execution scope, worker,    *)
(* token: fresh and written together) is its attempt number; a manifest is *)
(* the number of the attempt it names; a lease is live or lapsed; the      *)
(* directory of an attempt is open (with its marker), closed (exactly the  *)
(* five files) or broken (something removed); department and requester are *)
(* one flag, lost for good; the frozen snapshot of the dataset matches     *)
(* until the dataset row changes; a reconcile operation is about one       *)
(* attempt, and its administrator is authorised or the command stops.      *)
(***************************************************************************)
EXTENDS Naturals, FiniteSets

CONSTANTS
    Workers,        \* worker processes
    Reconcilers,    \* processes of the reconcile command
    MaxAttempts,    \* bound: attempt numbers of the job
    MaxOperations   \* bound: reconcile operations

ASSUME PublicationAssumption ==
    /\ Workers \intersect Reconcilers = {}
    /\ MaxAttempts \in Nat \ {0}
    /\ MaxOperations \in Nat

VARIABLES
    dataset,        \* the dataset build: approved, or changed since
    requester,      \* the requester administers the active department
    job,            \* the job row
    attempts,       \* the attempt rows, by number
    operation,      \* the latest reconcile operation and its items
    dir,            \* the directory of each attempt
    wk,             \* the memory of each worker process
    rm              \* the removal a worker or reconcile process is at

vars == <<dataset, requester, job, attempts, operation, dir, wk, rm>>
rows == <<dataset, requester, job, attempts, operation>>

Numbers == 1..MaxAttempts
Removers == Workers \union Reconcilers

JobStatus == {"absent", "queued", "running", "succeeded", "failed", "cancelled"}
ActiveAttempt == {"running", "staged", "published"}
GivenUp == {"reclaimed", "failed", "cancelled"}
AttemptStatus == {"none", "succeeded"} \union ActiveAttempt \union GivenUp

\* What ck_training_job_error_code lets a job row carry, as far as the worker
\* uses it, and what the artifact store reports besides.
JobErrorCodes == {"dataset_authority_changed", "requester_unauthorized",
                  "training_job_publication_failed", "claim_lost",
                  "worker_timeout", "cancelled"}
StoreErrorCodes == {"artifact_ownership_mismatch", "dataset_publication_failed"}

Operations == {"load", "open", "prepare", "record", "close", "rename", "verify",
               "publish", "complete"}
WorkingPhase == Operations \union {"cleanup", "renaming"}
WorkerPhase == WorkingPhase \union {"idle", "failing"}
RemovalStep == {"none", "stage", "emptying", "rmdir", "final", "unlinking",
                "finalRmdir", "done"}

JobRow == [status : JobStatus, attempt : Nat, live : BOOLEAN, cancel : BOOLEAN,
           manifest : Nat]
AttemptRow == [status : AttemptStatus, manifest : BOOLEAN, cleaned : BOOLEAN]
Operation == [id : Nat, open : BOOLEAN, attempt : Nat, final : BOOLEAN]
Directory == [at : {"none", "stage", "final"},
              content : {"none", "open", "closed", "broken"}]
Worker == [phase : WorkerPhase, attempt : Nat, guarded : BOOLEAN,
           code : {"none"} \union JobErrorCodes \union StoreErrorCodes]
Removal == [step : RemovalStep, attempt : Nat, final : BOOLEAN,
            blocked : BOOLEAN, operation : Nat]

NoAttempt == [status |-> "none", manifest |-> FALSE, cleaned |-> FALSE]
NoDirectory == [at |-> "none", content |-> "none"]
IdleWorker == [phase |-> "idle", attempt |-> 0, guarded |-> FALSE, code |-> "none"]
NoRemoval == [step |-> "none", attempt |-> 0, final |-> FALSE,
              blocked |-> FALSE, operation |-> 0]

Init ==
    /\ dataset = "approved"
    /\ requester = TRUE
    /\ job = [status |-> "absent", attempt |-> 0, live |-> FALSE,
              cancel |-> FALSE, manifest |-> 0]
    /\ attempts = [n \in Numbers |-> NoAttempt]
    /\ operation = [id |-> 0, open |-> FALSE, attempt |-> 0, final |-> FALSE]
    /\ dir = [n \in Numbers |-> NoDirectory]
    /\ wk = [w \in Workers |-> IdleWorker]
    /\ rm = [p \in Removers |-> NoRemoval]

TypeOK ==
    /\ dataset \in {"approved", "changed"}
    /\ requester \in BOOLEAN
    /\ job \in JobRow
    /\ attempts \in [Numbers -> AttemptRow]
    /\ operation \in Operation
    /\ dir \in [Numbers -> Directory]
    /\ wk \in [Workers -> Worker]
    /\ rm \in [Removers -> Removal]
    /\ job.status # "absent" => job.attempt \in Numbers
    /\ \A w \in Workers : wk[w].phase # "idle" => wk[w].attempt \in Numbers
    /\ \A p \in Removers : rm[p].step # "none" => rm[p].attempt \in Numbers
    /\ operation.open => operation.attempt \in Numbers

(***************************************************************************)
(* The API, and what changes around the job.                               *)
(***************************************************************************)

\* Mutant: numbering starts at zero.
EnqueueTrainingJobFromZero ==
    /\ job.status = "absent"
    /\ requester /\ dataset = "approved"
    /\ job' = [job EXCEPT !.status = "queued", !.attempt = 0]
    /\ UNCHANGED <<dataset, requester, attempts, operation, dir, wk, rm>>

EnqueueTrainingJob ==
    /\ job.status = "absent"
    /\ requester /\ dataset = "approved"
    /\ job' = [job EXCEPT !.status = "queued", !.attempt = 1]
    /\ UNCHANGED <<dataset, requester, attempts, operation, dir, wk, rm>>

CancelTrainingJob ==
    /\ \/ /\ job.status = "queued"
          /\ job' = [job EXCEPT !.status = "cancelled"]
       \/ /\ job.status = "running"
          /\ ~job.cancel
          /\ job' = [job EXCEPT !.cancel = TRUE]
    /\ UNCHANGED <<dataset, requester, attempts, operation, dir, wk, rm>>

\* The dataset is archived: its version is never eligible again.
ChangeDataset ==
    /\ dataset = "approved"
    /\ dataset' = "changed"
    /\ UNCHANGED <<requester, job, attempts, operation, dir, wk, rm>>

\* The requester's membership is revoked, or the department archived.
LoseRequester ==
    /\ requester
    /\ requester' = FALSE
    /\ UNCHANGED <<dataset, job, attempts, operation, dir, wk, rm>>

LeaseLapses ==
    /\ job.status = "running" /\ job.live
    /\ job' = [job EXCEPT !.live = FALSE]
    /\ UNCHANGED <<dataset, requester, attempts, operation, dir, wk, rm>>

(***************************************************************************)
(* Claim.                                                                  *)
(***************************************************************************)

Claimable ==
    \/ job.status = "queued"
    \/ job.status = "running" /\ ~job.live

\* The number of the attempt a claim adds.
NextNumber == IF job.status = "running" THEN job.attempt + 1 ELSE job.attempt

\* Mutant: the attempt taken over keeps its status.
ReclaimedNothing == attempts

\* The rows with the attempt a claim takes over reclaimed.
Reclaimed ==
    IF job.status = "running"
    THEN [attempts EXCEPT ![job.attempt].status = "reclaimed"]
    ELSE attempts

\* Mutant: the replacement cleans only the stage.
StaleSurfacesStageOnly(n) == [NoRemoval EXCEPT !.step = "stage", !.attempt = n]

\* What the replacement has to clean: the stage, and the final if the attempt
\* recorded a manifest.
StaleSurfaces(n) == [NoRemoval EXCEPT !.step = "stage", !.attempt = n,
                                      !.final = attempts[n].manifest]

TakenOver == job.status = "running" => attempts[job.attempt].status \in ActiveAttempt

Claim(w) ==
    /\ wk[w].phase = "idle"
    /\ Claimable /\ requester /\ TakenOver
    /\ NextNumber \in Numbers
    /\ attempts' = [Reclaimed EXCEPT ![NextNumber].status = "running"]
    /\ job' = [job EXCEPT !.status = "running", !.attempt = NextNumber,
                          !.live = TRUE, !.cancel = FALSE]
    /\ IF job.status = "running"
       THEN /\ wk' = [wk EXCEPT ![w] = [IdleWorker EXCEPT
                        !.phase = "cleanup", !.attempt = NextNumber]]
            /\ rm' = [rm EXCEPT ![w] = StaleSurfaces(job.attempt)]
       ELSE /\ wk' = [wk EXCEPT ![w] = [IdleWorker EXCEPT
                        !.phase = "load", !.attempt = NextNumber]]
            /\ UNCHANGED rm
    /\ UNCHANGED <<dataset, requester, operation, dir>>

\* The department or the requester is gone: the job fails with an attempt of
\* its own, and the worker polls on.
ClaimFails(w) ==
    /\ wk[w].phase = "idle"
    /\ Claimable /\ ~requester /\ TakenOver
    /\ NextNumber \in Numbers
    /\ attempts' = [Reclaimed EXCEPT ![NextNumber].status = "failed"]
    /\ job' = [job EXCEPT !.status = "failed", !.attempt = NextNumber, !.live = FALSE]
    /\ UNCHANGED <<dataset, requester, operation, dir, wk, rm>>

(***************************************************************************)
(* The worker's guard and its ways to fail.                                *)
(***************************************************************************)

Owned(w) == job.status = "running" /\ job.attempt = wk[w].attempt
LiveClaim(w) == Owned(w) /\ job.live /\ ~job.cancel

\* The worker goes on with its next operation, or reports an error.
Proceed(w, phase) == wk' = [wk EXCEPT ![w].phase = phase, ![w].guarded = FALSE]
Raise(w, code) ==
    wk' = [wk EXCEPT ![w].phase = "failing", ![w].guarded = FALSE, ![w].code = code]

\* The first check of a fresh guard renews the lease, whose claim must be
\* owned, live and not cancelled.
Guard(w) ==
    /\ wk[w].phase \in Operations \union {"cleanup"}
    /\ wk[w].phase = "cleanup" => rm[w].step \in {"stage", "final"}
    /\ ~wk[w].guarded
    /\ IF LiveClaim(w)
       THEN wk' = [wk EXCEPT ![w].guarded = TRUE] /\ UNCHANGED rm
       ELSE Raise(w, "claim_lost") /\ rm' = [rm EXCEPT ![w] = NoRemoval]
    /\ UNCHANGED <<rows, dir>>

\* Shutdown, deadline, a failing child, a lost connection: any operation may
\* end with one of the errors the queue itself knows.
OperationRaises(w) ==
    /\ wk[w].phase \in WorkingPhase
    /\ Raise(w, "worker_timeout")
    /\ rm' = [rm EXCEPT ![w] = NoRemoval]
    /\ UNCHANGED <<rows, dir>>

\* Mutant: a failure is written without looking who owns the job.
FailOrCancelAnyOwner(w) ==
    /\ wk[w].phase = "failing"
    /\ LET n == wk[w].attempt
           status == IF job.cancel THEN "cancelled" ELSE "failed"
       IN  IF /\ job.status = "running" /\ job.live
              /\ job.cancel \/ wk[w].code \in JobErrorCodes
           THEN /\ job' = [job EXCEPT !.status = status, !.live = FALSE]
                /\ attempts' = [attempts EXCEPT ![n].status = status]
           ELSE UNCHANGED <<job, attempts>>
    /\ wk' = [wk EXCEPT ![w] = IdleWorker]
    /\ UNCHANGED <<dataset, requester, operation, dir, rm>>

\* Only the owner of a live lease records its failure, and the row takes no
\* code outside its list: the commit is refused and nothing is written.
FailOrCancel(w) ==
    /\ wk[w].phase = "failing"
    /\ LET n == wk[w].attempt
           status == IF job.cancel THEN "cancelled" ELSE "failed"
       IN  IF /\ Owned(w) /\ job.live
              /\ attempts[n].status \in ActiveAttempt
              /\ job.cancel \/ wk[w].code \in JobErrorCodes
           THEN /\ job' = [job EXCEPT !.status = status, !.live = FALSE]
                /\ attempts' = [attempts EXCEPT ![n].status = status]
           ELSE UNCHANGED <<job, attempts>>
    /\ wk' = [wk EXCEPT ![w] = IdleWorker]
    /\ UNCHANGED <<dataset, requester, operation, dir, rm>>

WorkerCrash(w) ==
    /\ wk[w].phase # "idle"
    /\ wk' = [wk EXCEPT ![w] = IdleWorker]
    /\ rm' = [rm EXCEPT ![w] = NoRemoval]
    /\ UNCHANGED <<rows, dir>>

(***************************************************************************)
(* Removal of what an attempt left behind: its stage, then, if it recorded *)
(* a manifest, the final it may have published.  Workers do it for the     *)
(* attempt they reclaimed, guarded; the reconcile command without a guard. *)
(* The artifact store takes FileNotFoundError, also from a file that       *)
(* another process was faster to unlink, as "nothing left to remove".      *)
(***************************************************************************)

InFinal(n) == dir[n].at = "final"
FinalIsFree == \A n \in Numbers : ~InFinal(n)

MayRemove(p) == p \in Workers => wk[p].guarded
Unguard(p) == wk' = IF p \in Workers THEN [wk EXCEPT ![p].guarded = FALSE] ELSE wk

RemovalGoesOn(p, step) ==
    /\ rm' = [rm EXCEPT ![p].step = step]
    /\ UNCHANGED wk

\* One surface is dealt with.  After the stage comes the final; a worker
\* stops at the first surface that is blocked, reconcile goes on.
SurfaceDone(p, removed) ==
    LET final == /\ rm[p].step \in {"stage", "emptying", "rmdir"}
                 /\ rm[p].final
                 /\ removed \/ p \in Reconcilers
    IN  /\ rm' = [rm EXCEPT ![p].step = IF final THEN "final" ELSE "done",
                            ![p].blocked = @ \/ ~removed]
        /\ Unguard(p)

OpenStage(p) ==
    /\ rm[p].step = "stage" /\ MayRemove(p)
    /\ IF dir[rm[p].attempt].at = "stage"
       THEN RemovalGoesOn(p, "emptying")
       ELSE SurfaceDone(p, TRUE)
    /\ UNCHANGED <<rows, dir>>

\* The files go through the descriptor of the directory, wherever a slow
\* worker has renamed it to in the meantime.  A directory that is not whole
\* may be another removal's, which was faster with some file and may have
\* stopped since.
EmptyStage(p) ==
    LET n == rm[p].attempt
    IN  /\ rm[p].step = "emptying"
        /\ \/ /\ dir[n].at # "none"
              /\ dir' = [dir EXCEPT ![n].content = "broken"]
              /\ RemovalGoesOn(p, "rmdir")
           \/ /\ dir[n].content \in {"none", "broken"}
              /\ SurfaceDone(p, TRUE)
              /\ UNCHANGED dir
        /\ UNCHANGED rows

\* rmdir is refused when a child of a slow worker has written in between.
RemoveStage(p) ==
    LET n == rm[p].attempt
    IN  /\ rm[p].step = "rmdir"
        /\ \/ /\ dir[n].at = "stage"
              /\ dir' = [dir EXCEPT ![n] = NoDirectory]
              /\ SurfaceDone(p, TRUE)
           \/ /\ dir[n].at = "stage"
              /\ \E w \in Workers : wk[w].attempt = n /\ wk[w].phase = "record"
              /\ SurfaceDone(p, FALSE)
              /\ UNCHANGED dir
           \/ /\ dir[n].at # "stage"
              /\ SurfaceDone(p, TRUE)
              /\ UNCHANGED dir
        /\ UNCHANGED rows

\* The final is whole and its manifest is the one the attempt recorded.
OwnsFinal(n) == InFinal(n) /\ dir[n].content = "closed"

VerifyOwnedFinal(p) ==
    /\ rm[p].step = "final" /\ MayRemove(p)
    /\ CASE FinalIsFree -> SurfaceDone(p, TRUE)
         [] OwnsFinal(rm[p].attempt) -> RemovalGoesOn(p, "unlinking")
         [] OTHER -> SurfaceDone(p, FALSE)
    /\ UNCHANGED <<rows, dir>>

UnlinkFinal(p) ==
    LET n == rm[p].attempt
    IN  /\ rm[p].step = "unlinking"
        /\ \/ /\ InFinal(n)
              /\ dir' = [dir EXCEPT ![n].content = "broken"]
              /\ RemovalGoesOn(p, "finalRmdir")
           \/ /\ InFinal(n) => dir[n].content = "broken"
              /\ SurfaceDone(p, InFinal(n) \/ FinalIsFree)
              /\ UNCHANGED dir
        /\ UNCHANGED rows

RemoveFinal(p) ==
    LET n == rm[p].attempt
    IN  /\ rm[p].step = "finalRmdir"
        /\ dir' = IF InFinal(n) THEN [dir EXCEPT ![n] = NoDirectory] ELSE dir
        /\ SurfaceDone(p, InFinal(n) \/ FinalIsFree)
        /\ UNCHANGED rows

Remove(p) ==
    \/ OpenStage(p) \/ EmptyStage(p) \/ RemoveStage(p)
    \/ VerifyOwnedFinal(p) \/ UnlinkFinal(p) \/ RemoveFinal(p)

\* The replacement worker confirms, whoever owns the job by now, and begins;
\* a blocked surface ends its own attempt.
ConfirmCleanup(w) ==
    /\ wk[w].phase = "cleanup" /\ rm[w].step = "done"
    /\ IF rm[w].blocked
       THEN Raise(w, "training_job_publication_failed") /\ UNCHANGED attempts
       ELSE /\ attempts' = [attempts EXCEPT ![rm[w].attempt].cleaned = TRUE]
            /\ Proceed(w, "load")
    /\ rm' = [rm EXCEPT ![w] = NoRemoval]
    /\ UNCHANGED <<dataset, requester, job, operation, dir>>

(***************************************************************************)
(* The operations of a claim, in the order of process_training_job.        *)
(***************************************************************************)

At(w, phase) == wk[w].phase = phase /\ wk[w].guarded

LoadEligibleDataset(w) ==
    /\ At(w, "load")
    /\ IF dataset = "approved"
       THEN Proceed(w, "open")
       ELSE Raise(w, "dataset_authority_changed")
    /\ UNCHANGED <<rows, dir, rm>>

\* The files of an approved dataset are in place: its purge waits for weeks
\* after it is archived.
OpenRetainedFinal(w) ==
    /\ At(w, "open")
    /\ Proceed(w, "prepare")
    /\ UNCHANGED <<rows, dir, rm>>

\* An OSError of mkdir is a publication failure of a dataset.
PrepareStage(w) ==
    /\ At(w, "prepare")
    /\ \/ /\ dir' = [dir EXCEPT ![wk[w].attempt] = [at |-> "stage", content |-> "open"]]
          /\ Proceed(w, "record")
       \/ /\ Raise(w, "dataset_publication_failed")
          /\ UNCHANGED dir
    /\ UNCHANGED <<rows, rm>>

\* Mutant: the manifest is recorded on the job only.
RecordAttemptManifestOnJob(w) ==
    LET n == wk[w].attempt
    IN  /\ At(w, "record")
        /\ IF LiveClaim(w) /\ attempts[n].status = "running"
           THEN /\ job' = [job EXCEPT !.manifest = n]
                /\ attempts' = [attempts EXCEPT ![n].status = "staged"]
                /\ Proceed(w, "close")
           ELSE Raise(w, "claim_lost") /\ UNCHANGED <<job, attempts>>
        /\ UNCHANGED <<dataset, requester, operation, dir, rm>>

\* The child has written the bundle; its manifest is recorded before the
\* directory can leave the stage.
RecordAttemptManifest(w) ==
    LET n == wk[w].attempt
    IN  /\ At(w, "record")
        /\ IF LiveClaim(w) /\ attempts[n].status = "running"
           THEN /\ job' = [job EXCEPT !.manifest = n]
                /\ attempts' = [attempts EXCEPT ![n].status = "staged",
                                                ![n].manifest = TRUE]
                /\ Proceed(w, "close")
           ELSE Raise(w, "claim_lost") /\ UNCHANGED <<job, attempts>>
        /\ UNCHANGED <<dataset, requester, operation, dir, rm>>

\* What a recheck of the retained descriptors reports of a directory that is
\* not as it was left.
RecheckFails(w) ==
    \E code \in {"artifact_ownership_mismatch", "training_job_publication_failed"} :
      Raise(w, code)

\* preverify_staged and transition_stage_marker.
TransitionStageMarker(w) ==
    LET n == wk[w].attempt
    IN  /\ At(w, "close")
        /\ IF dir[n] = [at |-> "stage", content |-> "open"]
           THEN dir' = [dir EXCEPT ![n].content = "closed"] /\ Proceed(w, "rename")
           ELSE RecheckFails(w) /\ UNCHANGED dir
        /\ UNCHANGED <<rows, rm>>

\* The checks before the rename; the worker may still stall behind them.
CheckRename(w) ==
    /\ At(w, "rename")
    /\ IF /\ dir[wk[w].attempt] = [at |-> "stage", content |-> "closed"]
          /\ FinalIsFree
       THEN Proceed(w, "renaming")
       ELSE RecheckFails(w)
    /\ UNCHANGED <<rows, dir, rm>>

\* os.rename by name: the stage must still exist, broken or not; an existing
\* final stops it, unless a removal has emptied that one already.
RenameStage(w) ==
    LET n == wk[w].attempt
    IN  /\ wk[w].phase = "renaming"
        /\ \/ /\ dir[n].at = "stage"
              /\ \A m \in Numbers : InFinal(m) => dir[m].content = "broken"
              /\ dir' = [m \in Numbers |->
                           CASE m = n -> [dir[n] EXCEPT !.at = "final"]
                             [] InFinal(m) -> NoDirectory
                             [] OTHER -> dir[m]]
              /\ Proceed(w, "verify")
           \/ /\ dir[n].at # "stage" \/ ~FinalIsFree
              /\ Raise(w, "training_job_publication_failed")
              /\ UNCHANGED dir
        /\ UNCHANGED <<rows, rm>>

BundleStands(n) == dir[n] = [at |-> "final", content |-> "closed"]

VerifyPreverifiedFinal(w) ==
    /\ At(w, "verify")
    /\ IF BundleStands(wk[w].attempt) THEN Proceed(w, "publish") ELSE RecheckFails(w)
    /\ UNCHANGED <<rows, dir, rm>>

MarkAttemptPublished(w) ==
    LET n == wk[w].attempt
    IN  /\ At(w, "publish")
        /\ IF LiveClaim(w) /\ attempts[n].status = "staged"
           THEN /\ attempts' = [attempts EXCEPT ![n].status = "published"]
                /\ Proceed(w, "complete")
           ELSE Raise(w, "claim_lost") /\ UNCHANGED attempts
        /\ UNCHANGED <<dataset, requester, job, operation, dir, rm>>

\* Mutant: the final transaction forgets that a cancellation may have come.
MayCompleteCancelled(w) ==
    /\ Owned(w) /\ job.live
    /\ attempts[wk[w].attempt].status = "published"
    /\ dataset = "approved" /\ requester

\* What the final transaction finds under its locks.
MayComplete(w) ==
    /\ LiveClaim(w)
    /\ attempts[wk[w].attempt].status = "published"
    /\ dataset = "approved" /\ requester

Complete(w) ==
    LET n == wk[w].attempt
    IN  /\ At(w, "complete")
        /\ IF MayComplete(w) /\ job.manifest = n /\ BundleStands(n)
           THEN /\ job' = [job EXCEPT !.status = "succeeded", !.live = FALSE]
                /\ attempts' = [attempts EXCEPT ![n].status = "succeeded"]
                /\ wk' = [wk EXCEPT ![w] = IdleWorker]
           ELSE /\ IF MayComplete(w)
                   THEN RecheckFails(w)
                   ELSE Raise(w, "dataset_authority_changed")
                /\ UNCHANGED <<job, attempts>>
        /\ UNCHANGED <<dataset, requester, operation, dir, rm>>

Process(w) ==
    \/ Guard(w) \/ OperationRaises(w) \/ FailOrCancel(w)
    \/ Remove(w) \/ ConfirmCleanup(w)
    \/ LoadEligibleDataset(w) \/ OpenRetainedFinal(w) \/ PrepareStage(w)
    \/ RecordAttemptManifest(w) \/ TransitionStageMarker(w)
    \/ CheckRename(w) \/ RenameStage(w) \/ VerifyPreverifiedFinal(w)
    \/ MarkAttemptPublished(w) \/ Complete(w)

(***************************************************************************)
(* The reconcile command.                                                  *)
(***************************************************************************)

\* Mutant: an attempt that is still at work is taken for an abandoned one.
NeedsCleanupEvenActive(n) ==
    attempts[n].status \in GivenUp \union {"staged", "published"} /\ ~attempts[n].cleaned

NeedsCleanup(n) == attempts[n].status \in GivenUp /\ ~attempts[n].cleaned

StartRemoval(r, id, n, final) ==
    rm' = [rm EXCEPT ![r] = [NoRemoval EXCEPT !.step = "stage", !.attempt = n,
                                !.final = final, !.operation = id]]

\* The final is an item of its own only while no attempt has succeeded.
RegisterReconcile(r) ==
    /\ rm[r].step = "none"
    /\ ~operation.open
    /\ operation.id < MaxOperations
    /\ \E n \in Numbers :
         LET final == job.status # "succeeded" /\ attempts[n].manifest
         IN  /\ NeedsCleanup(n)
             /\ operation' = [id |-> operation.id + 1, open |-> TRUE,
                              attempt |-> n, final |-> final]
             /\ StartRemoval(r, operation.id + 1, n, final)
    /\ UNCHANGED <<dataset, requester, job, attempts, dir, wk>>

\* An operation a stopped command left behind is taken up as it is.
ResumeReconcile(r) ==
    /\ rm[r].step = "none"
    /\ operation.open
    /\ StartRemoval(r, operation.id, operation.attempt, operation.final)
    /\ UNCHANGED <<rows, dir, wk>>

PersistReconcile(r) ==
    /\ rm[r].step = "done"
    /\ IF operation.open /\ operation.id = rm[r].operation
       THEN /\ operation' = [operation EXCEPT !.open = FALSE]
            /\ attempts' = IF rm[r].blocked THEN attempts
                           ELSE [attempts EXCEPT ![rm[r].attempt].cleaned = TRUE]
       ELSE UNCHANGED <<operation, attempts>>
    /\ rm' = [rm EXCEPT ![r] = NoRemoval]
    /\ UNCHANGED <<dataset, requester, job, dir, wk>>

\* An error or the end of the process: what is registered stays registered.
ReconcileStops(r) ==
    /\ rm[r].step # "none"
    /\ rm' = [rm EXCEPT ![r] = NoRemoval]
    /\ UNCHANGED <<rows, dir, wk>>

Next ==
    \/ EnqueueTrainingJob \/ CancelTrainingJob
    \/ ChangeDataset \/ LoseRequester \/ LeaseLapses
    \/ \E w \in Workers : Claim(w) \/ ClaimFails(w) \/ Process(w) \/ WorkerCrash(w)
    \/ \E r \in Reconcilers :
         RegisterReconcile(r) \/ ResumeReconcile(r) \/ Remove(r)
         \/ PersistReconcile(r) \/ ReconcileStops(r)

Spec == Init /\ [][Next]_vars

(***************************************************************************)
(* Properties.                                                             *)
(***************************************************************************)

\* An attempt is at work exactly while it is the current one of a running
\* job: reclaims, refused claims and failures that are rolled back never
\* leave a second one, or a running job without one
\* (training_job_queue.py:217-246, 299-335, 782-819).
OneActiveAttempt ==
    \A n \in Numbers :
      attempts[n].status \in ActiveAttempt
        <=> job.status = "running" /\ job.attempt = n

\* Whatever is at the final path belongs to an attempt whose row says so: a
\* crash after the rename leaves nothing that reconcile could not prove to be
\* an attempt's (training_job_queue.py:611-639, sft_artifacts.py:1391-1426).
FinalIsRecorded == \A n \in Numbers : InFinal(n) => attempts[n].manifest

\* Once the cleanup of an attempt is confirmed its bundle is not at the final
\* path in whole, nor will be, although its worker may have passed its last
\* check long ago (training_job_queue.py:822-875, training_job_maintenance.py:
\* 1741-1776).
CleanedNeverPublished ==
    \A n \in Numbers : attempts[n].cleaned => ~BundleStands(n)

\* Only the final of an attempt that was given up is ever touched, whatever
\* removals were begun when the path was free or another attempt's.
OnlyGivenUpRemoved ==
    [][\A n \in Numbers : BundleStands(n) /\ dir'[n] # dir[n]
         => attempts[n].status \in GivenUp]_vars

\* An attempt that ended stays as it ended, with its manifest and its cleanup:
\* a worker that comes back does not write into the row it lost.
AttemptHistory ==
    [][\A n \in Numbers :
         attempts[n].status \in GivenUp \union {"succeeded"} =>
           /\ attempts'[n].status = attempts[n].status
           /\ attempts'[n].manifest = attempts[n].manifest
           /\ attempts[n].cleaned => attempts'[n].cleaned]_vars

\* A claim asked to stop never succeeds: only a reclaim, which begins anew,
\* clears the request (training_job_queue.py:240, 706-718).
CancelledClaimNeverSucceeds ==
    [][job.status = "running" /\ job.cancel => job'.status # "succeeded"]_vars

\* The queue implements its promise: a bundle counts only with the row.
Promise == INSTANCE BundlePublication WITH
    status <- job.status,
    attempt <- job.attempt,
    bundle <- IF job.status # "succeeded" THEN 0
              ELSE IF BundleStands(job.attempt) THEN job.attempt ELSE 0

ImplementsPromise == Promise!Spec

\* models.py:3960-3966 lists the error codes of a job: "error_code IS NULL OR
\* error_code IN (...)".  An owner that reports a failure reports one of them.
ErrorCodesAreListed ==
    \A w \in Workers :
      wk[w].phase = "failing" /\ LiveClaim(w) => wk[w].code \in JobErrorCodes
=============================================================================
