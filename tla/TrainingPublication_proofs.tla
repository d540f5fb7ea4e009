--------------------- MODULE TrainingPublication_proofs ---------------------
(***************************************************************************)
(* Theorems about TrainingPublication, for every value of its constants:   *)
(* first the rows, then the directories, then the refinement.              *)
(***************************************************************************)
EXTENDS TrainingPublication, TLAPS

(***************************************************************************)
(* Type correctness, variable by variable.                                 *)
(***************************************************************************)

RowsTyped ==
    /\ dataset \in {"approved", "changed"}
    /\ requester \in BOOLEAN
    /\ job \in JobRow
    /\ attempts \in [Numbers -> AttemptRow]
    /\ operation \in Operation
    /\ job.status # "absent" => job.attempt \in Numbers
    /\ operation.open => operation.attempt \in Numbers

DirTyped == dir \in [Numbers -> Directory]

WorkersTyped ==
    /\ wk \in [Workers -> Worker]
    /\ \A w \in Workers : wk[w].phase # "idle" => wk[w].attempt \in Numbers

RemovalsTyped ==
    /\ rm \in [Removers -> Removal]
    /\ \A p \in Removers : rm[p].step # "none" => rm[p].attempt \in Numbers

LEMMA TypeParts == TypeOK <=> RowsTyped /\ DirTyped /\ WorkersTyped /\ RemovalsTyped
BY DEF TypeOK, RowsTyped, DirTyped, WorkersTyped, RemovalsTyped

LEMMA TypePartsNext ==
    TypeOK' <=> RowsTyped' /\ DirTyped' /\ WorkersTyped' /\ RemovalsTyped'
BY DEF TypeOK, RowsTyped, DirTyped, WorkersTyped, RemovalsTyped

LEMMA NumbersAreNaturals ==
    /\ Numbers \subseteq Nat
    /\ 0 \notin Numbers
    /\ 1 \in Numbers
BY PublicationAssumption DEF Numbers

LEMMA IdleWorkerType == IdleWorker \in Worker
BY DEF IdleWorker, Worker, WorkerPhase

LEMMA NoRemovalType == NoRemoval \in Removal
BY DEF NoRemoval, Removal, RemovalStep

LEMMA NoDirectoryType == NoDirectory \in Directory
BY DEF NoDirectory, Directory

LEMMA InitType == Init => TypeOK
<1> SUFFICES ASSUME Init PROVE TypeOK
    OBVIOUS
<1>1. RowsTyped
    BY DEF Init, RowsTyped, JobRow, JobStatus, AttemptRow, NoAttempt, AttemptStatus,
           Operation
<1>2. DirTyped
    BY NoDirectoryType DEF Init, DirTyped
<1>3. WorkersTyped
    BY IdleWorkerType DEF Init, WorkersTyped, IdleWorker
<1>4. RemovalsTyped
    BY NoRemovalType DEF Init, RemovalsTyped, NoRemoval
<1>5. QED
    BY <1>1, <1>2, <1>3, <1>4, TypeParts

(***************************************************************************)
(* The ways a step changes the memory of a worker or of a removal.         *)
(***************************************************************************)

LEMMA ProceedType ==
    ASSUME WorkersTyped, NEW w \in Workers, wk[w].phase # "idle",
           NEW phase \in Operations \union {"renaming"}, Proceed(w, phase)
    PROVE  WorkersTyped'
BY ZenonT(40) DEF WorkersTyped, Proceed, Worker, WorkerPhase, WorkingPhase

LEMMA RaiseType ==
    ASSUME WorkersTyped, NEW w \in Workers, wk[w].phase # "idle",
           NEW code \in JobErrorCodes \union StoreErrorCodes, Raise(w, code)
    PROVE  WorkersTyped'
BY ZenonT(40) DEF WorkersTyped, Raise, Worker, WorkerPhase

LEMMA RecheckFailsType ==
    ASSUME WorkersTyped, NEW w \in Workers, wk[w].phase # "idle", RecheckFails(w)
    PROVE  WorkersTyped'
BY RaiseType DEF RecheckFails, JobErrorCodes, StoreErrorCodes

LEMMA EndType ==
    ASSUME WorkersTyped, NEW w \in Workers, wk' = [wk EXCEPT ![w] = IdleWorker]
    PROVE  WorkersTyped'
BY IdleWorkerType DEF WorkersTyped, IdleWorker

LEMMA StopRemovalType ==
    ASSUME RemovalsTyped, NEW p \in Removers, rm' = [rm EXCEPT ![p] = NoRemoval]
    PROVE  RemovalsTyped'
BY NoRemovalType DEF RemovalsTyped, NoRemoval

LEMMA RemovalGoesOnType ==
    ASSUME RemovalsTyped, WorkersTyped, NEW p \in Removers, rm[p].step # "none",
           NEW step \in RemovalStep, RemovalGoesOn(p, step)
    PROVE  RemovalsTyped' /\ WorkersTyped'
<1>1. RemovalsTyped'
    BY DEF RemovalsTyped, RemovalGoesOn, Removal
<1>2. WorkersTyped'
    BY DEF WorkersTyped, RemovalGoesOn
<1>3. QED
    BY <1>1, <1>2

LEMMA SurfaceDoneType ==
    ASSUME RemovalsTyped, WorkersTyped, NEW p \in Removers, rm[p].step # "none",
           NEW removed \in BOOLEAN, SurfaceDone(p, removed)
    PROVE  RemovalsTyped' /\ WorkersTyped'
<1>1. RemovalsTyped'
    <2>1. PICK step \in {"final", "done"} :
            rm' = [rm EXCEPT ![p].step = step, ![p].blocked = @ \/ ~removed]
        BY DEF SurfaceDone
    <2>2. [rm[p] EXCEPT !.step = step, !.blocked = @ \/ ~removed] \in Removal
        <3>1. rm[p] \in Removal
            BY DEF RemovalsTyped
        <3>2. QED
            BY <3>1 DEF Removal, RemovalStep
    <2>3. QED
        BY <2>1, <2>2 DEF RemovalsTyped
<1>2. WorkersTyped'
    <2>1. wk' = wk \/ (p \in Workers /\ wk' = [wk EXCEPT ![p].guarded = FALSE])
        BY DEF SurfaceDone, Unguard
    <2>2. CASE wk' = wk
        BY <2>2 DEF WorkersTyped
    <2>3. CASE p \in Workers /\ wk' = [wk EXCEPT ![p].guarded = FALSE]
        BY <2>3 DEF WorkersTyped, Worker
    <2>4. QED
        BY <2>1, <2>2, <2>3
<1>3. QED
    BY <1>1, <1>2

(***************************************************************************)
(* Every step preserves the types.                                         *)
(***************************************************************************)

LEMMA WorldType ==
    ASSUME TypeOK,
           EnqueueTrainingJob \/ CancelTrainingJob \/ ChangeDataset
             \/ LoseRequester \/ LeaseLapses
    PROVE  TypeOK'
<1>1. RowsTyped'
    BY NumbersAreNaturals, TypeParts
       DEF RowsTyped, JobRow, JobStatus, EnqueueTrainingJob, CancelTrainingJob,
           ChangeDataset, LoseRequester, LeaseLapses
<1>2. UNCHANGED <<dir, wk, rm>>
    BY DEF EnqueueTrainingJob, CancelTrainingJob, ChangeDataset, LoseRequester,
           LeaseLapses
<1>3. QED
    BY <1>1, <1>2, TypeParts, TypePartsNext DEF DirTyped, WorkersTyped, RemovalsTyped

LEMMA ReclaimedType ==
    ASSUME RowsTyped, job.status \in {"queued", "running"}
    PROVE  Reclaimed \in [Numbers -> AttemptRow]
BY DEF RowsTyped, Reclaimed, AttemptRow, AttemptStatus, GivenUp

LEMMA SetStatusType ==
    ASSUME NEW rs \in [Numbers -> AttemptRow], NEW n \in Numbers,
           NEW status \in AttemptStatus
    PROVE  [rs EXCEPT ![n].status = status] \in [Numbers -> AttemptRow]
BY DEF AttemptRow

LEMMA SetCleanedType ==
    ASSUME NEW rs \in [Numbers -> AttemptRow], NEW n \in Numbers
    PROVE  [rs EXCEPT ![n].cleaned = TRUE] \in [Numbers -> AttemptRow]
BY DEF AttemptRow

LEMMA ClaimType ==
    ASSUME TypeOK, NEW w \in Workers, Claim(w)
    PROVE  TypeOK'
<1> USE TypeParts, TypePartsNext
<1>1. /\ job.status \in {"queued", "running"}
      /\ job.attempt \in Numbers /\ NextNumber \in Numbers
    BY DEF Claim, Claimable, RowsTyped
<1>2. RowsTyped'
    <2>1. attempts' \in [Numbers -> AttemptRow]
        BY <1>1, ReclaimedType, SetStatusType DEF Claim, AttemptStatus, ActiveAttempt
    <2>2. job' \in JobRow /\ job'.attempt \in Numbers
        BY <1>1, NumbersAreNaturals DEF Claim, RowsTyped, JobRow, JobStatus
    <2>3. QED
        BY <2>1, <2>2 DEF Claim, RowsTyped
<1>3. WorkersTyped'
    <2>1. PICK phase \in {"cleanup", "load"} :
            wk' = [wk EXCEPT ![w] = [IdleWorker EXCEPT !.phase = phase,
                                                      !.attempt = NextNumber]]
        BY DEF Claim
    <2>2. [IdleWorker EXCEPT !.phase = phase, !.attempt = NextNumber] \in Worker
        BY <1>1, NumbersAreNaturals
           DEF IdleWorker, Worker, WorkerPhase, WorkingPhase, Operations
    <2>3. QED
        BY <1>1, <2>1, <2>2 DEF WorkersTyped, IdleWorker
<1>4. RemovalsTyped'
    <2>1. attempts[job.attempt].manifest \in BOOLEAN
        BY <1>1 DEF RowsTyped, AttemptRow
    <2>2. StaleSurfaces(job.attempt) \in Removal
        BY <1>1, <2>1, NumbersAreNaturals DEF StaleSurfaces, NoRemoval, Removal, RemovalStep
    <2>3. StaleSurfaces(job.attempt).attempt \in Numbers
        BY <1>1 DEF StaleSurfaces, NoRemoval
    <2>4. w \in Removers
        BY DEF Removers
    <2>5. QED
        BY <2>2, <2>3, <2>4 DEF Claim, RemovalsTyped
<1>5. DirTyped'
    BY DEF Claim, DirTyped
<1>6. QED
    BY <1>2, <1>3, <1>4, <1>5

LEMMA ClaimFailsType ==
    ASSUME TypeOK, NEW w \in Workers, ClaimFails(w)
    PROVE  TypeOK'
<1> USE TypeParts, TypePartsNext
<1>1. /\ job.status \in {"queued", "running"}
      /\ NextNumber \in Numbers
    BY DEF ClaimFails, Claimable
<1>2. attempts' \in [Numbers -> AttemptRow]
    BY <1>1, ReclaimedType, SetStatusType DEF ClaimFails, AttemptStatus, GivenUp
<1>3. job' \in JobRow /\ job'.attempt \in Numbers
    BY <1>1, NumbersAreNaturals DEF ClaimFails, RowsTyped, JobRow, JobStatus
<1>4. RowsTyped'
    BY <1>2, <1>3 DEF ClaimFails, RowsTyped
<1>5. QED
    BY <1>4 DEF ClaimFails, DirTyped, WorkersTyped, RemovalsTyped

LEMMA FailureType ==
    ASSUME TypeOK, NEW w \in Workers,
           Guard(w) \/ OperationRaises(w) \/ FailOrCancel(w) \/ WorkerCrash(w)
    PROVE  TypeOK'
<1> USE TypeParts, TypePartsNext
<1>1. wk[w].phase # "idle" /\ w \in Removers
    BY DEF Guard, OperationRaises, FailOrCancel, WorkerCrash, Operations, WorkingPhase,
           Removers
<1>2. CASE Guard(w)
    <2>1. CASE LiveClaim(w)
        <3>1. WorkersTyped'
            <4>1. wk' = [wk EXCEPT ![w].guarded = TRUE]
                BY <1>2, <2>1 DEF Guard
            <4>2. QED
                BY <4>1 DEF WorkersTyped, Worker
        <3>2. UNCHANGED <<rows, dir, rm>>
            BY <1>2, <2>1 DEF Guard
        <3>3. QED
            BY <3>1, <3>2 DEF rows, RowsTyped, DirTyped, RemovalsTyped
    <2>2. CASE ~LiveClaim(w)
        BY <1>1, <1>2, <2>2, RaiseType, StopRemovalType
           DEF Guard, rows, RowsTyped, DirTyped, JobErrorCodes
    <2>3. QED
        BY <2>1, <2>2
<1>3. CASE OperationRaises(w)
    BY <1>1, <1>3, RaiseType, StopRemovalType
       DEF OperationRaises, rows, RowsTyped, DirTyped, JobErrorCodes
<1>4. CASE FailOrCancel(w)
    <2>1. wk[w].attempt \in Numbers
        BY <1>1 DEF WorkersTyped
    <2>2. RowsTyped'
        <3>1. PICK status \in {"failed", "cancelled"} :
                \/ /\ job' = [job EXCEPT !.status = status, !.live = FALSE]
                   /\ job.status = "running"
                   /\ attempts' = [attempts EXCEPT ![wk[w].attempt].status = status]
                \/ UNCHANGED <<job, attempts>>
            BY <1>4 DEF FailOrCancel, Owned
        <3>2. UNCHANGED <<dataset, requester, operation>>
            BY <1>4 DEF FailOrCancel
        <3>3. attempts' \in [Numbers -> AttemptRow]
            BY <2>1, <3>1, SetStatusType DEF RowsTyped, AttemptStatus, GivenUp
        <3>4. QED
            BY <3>1, <3>2, <3>3 DEF RowsTyped, JobRow, JobStatus
    <2>3. QED
        BY <1>4, <2>2, EndType DEF FailOrCancel, DirTyped, RemovalsTyped
<1>5. CASE WorkerCrash(w)
    BY <1>1, <1>5, EndType, StopRemovalType DEF WorkerCrash, rows, RowsTyped, DirTyped
<1>6. QED
    BY <1>2, <1>3, <1>4, <1>5

LEMMA SetContentType ==
    ASSUME DirTyped, NEW n \in Numbers, NEW content \in {"open", "closed", "broken"},
           dir' = [dir EXCEPT ![n].content = content]
    PROVE  DirTyped'
BY DEF DirTyped, Directory

LEMMA NoDirectoryTyped ==
    ASSUME DirTyped, NEW n \in Numbers, dir' = [dir EXCEPT ![n] = NoDirectory]
    PROVE  DirTyped'
BY NoDirectoryType DEF DirTyped

\* What a step of a removal does to the memory of its process.
LEMMA RemoveMoves ==
    ASSUME TypeOK, NEW p \in Removers, Remove(p)
    PROVE  /\ rm[p].step # "none"
           /\ UNCHANGED rows
           /\ \/ \E step \in {"emptying", "rmdir", "unlinking", "finalRmdir"} :
                   RemovalGoesOn(p, step)
              \/ \E removed \in BOOLEAN : SurfaceDone(p, removed)
<1>1. CASE OpenStage(p)
    BY <1>1 DEF OpenStage
<1>2. CASE EmptyStage(p)
    BY <1>2 DEF EmptyStage
<1>3. CASE RemoveStage(p)
    BY <1>3 DEF RemoveStage
<1>4. CASE VerifyOwnedFinal(p)
    BY <1>4 DEF VerifyOwnedFinal
<1>5. CASE UnlinkFinal(p)
    BY <1>5 DEF UnlinkFinal, FinalIsFree, InFinal
<1>6. CASE RemoveFinal(p)
    BY <1>6 DEF RemoveFinal, FinalIsFree, InFinal
<1>7. QED
    BY <1>1, <1>2, <1>3, <1>4, <1>5, <1>6 DEF Remove

LEMMA RemoveType ==
    ASSUME TypeOK, NEW p \in Removers, Remove(p)
    PROVE  TypeOK'
<1> USE TypeParts, TypePartsNext
<1>1. rm[p].step # "none" /\ rm[p].attempt \in Numbers
    BY RemoveMoves DEF RemovalsTyped
<1>2. RowsTyped'
    BY RemoveMoves DEF rows, RowsTyped
<1>3. WorkersTyped' /\ RemovalsTyped'
    BY <1>1, RemoveMoves, RemovalGoesOnType, SurfaceDoneType DEF RemovalStep
<1>4. DirTyped'
    BY <1>1, SetContentType, NoDirectoryTyped
       DEF Remove, OpenStage, EmptyStage, RemoveStage, VerifyOwnedFinal, UnlinkFinal,
           RemoveFinal, DirTyped
<1>5. QED
    BY <1>2, <1>3, <1>4

LEMMA ConfirmCleanupType ==
    ASSUME TypeOK, NEW w \in Workers, ConfirmCleanup(w)
    PROVE  TypeOK'
<1> USE TypeParts, TypePartsNext
<1>1. /\ wk[w].phase # "idle" /\ w \in Removers
      /\ rm[w].attempt \in Numbers
    BY DEF ConfirmCleanup, Removers, RemovalsTyped
<1>2. RowsTyped'
    BY ZenonT(40), <1>1 DEF ConfirmCleanup, RowsTyped, AttemptRow
<1>3. WorkersTyped'
    BY <1>1, RaiseType, ProceedType DEF ConfirmCleanup, JobErrorCodes, Operations
<1>4. RemovalsTyped'
    BY <1>1, StopRemovalType DEF ConfirmCleanup
<1>5. QED
    BY <1>2, <1>3, <1>4 DEF ConfirmCleanup, DirTyped

\* The operations of a claim, up to the final transaction.
BuildStep(w) ==
    \/ LoadEligibleDataset(w) \/ OpenRetainedFinal(w) \/ PrepareStage(w)
    \/ RecordAttemptManifest(w) \/ TransitionStageMarker(w) \/ CheckRename(w)
    \/ RenameStage(w) \/ VerifyPreverifiedFinal(w) \/ MarkAttemptPublished(w)

LEMMA OperationMoves ==
    ASSUME NEW w \in Workers, BuildStep(w)
    PROVE  /\ wk[w].phase \in Operations \union {"renaming"}
           /\ UNCHANGED <<dataset, requester, operation, rm>>
           /\ \/ \E phase \in Operations \union {"renaming"} : Proceed(w, phase)
              \/ \E code \in JobErrorCodes \union StoreErrorCodes : Raise(w, code)
<1> USE DEF Operations, JobErrorCodes, StoreErrorCodes, At, rows, RecheckFails
<1>1. CASE LoadEligibleDataset(w) \/ OpenRetainedFinal(w) \/ PrepareStage(w)
    BY <1>1 DEF LoadEligibleDataset, OpenRetainedFinal, PrepareStage
<1>2. CASE RecordAttemptManifest(w)
    BY <1>2 DEF RecordAttemptManifest
<1>3. CASE TransitionStageMarker(w)
    BY <1>3 DEF TransitionStageMarker
<1>4. CASE CheckRename(w) \/ VerifyPreverifiedFinal(w)
    BY <1>4 DEF CheckRename, VerifyPreverifiedFinal
<1>5. CASE RenameStage(w)
    BY <1>5 DEF RenameStage
<1>6. CASE MarkAttemptPublished(w)
    BY <1>6 DEF MarkAttemptPublished
<1>7. QED
    BY <1>1, <1>2, <1>3, <1>4, <1>5, <1>6 DEF BuildStep

LEMMA OperationType ==
    ASSUME TypeOK, NEW w \in Workers, BuildStep(w)
    PROVE  TypeOK'
<1> USE TypeParts, TypePartsNext
<1>1. wk[w].phase # "idle" /\ wk[w].attempt \in Numbers
    BY OperationMoves DEF Operations, WorkersTyped
<1>2. WorkersTyped'
    BY <1>1, OperationMoves, ProceedType, RaiseType
<1>3. RemovalsTyped'
    BY OperationMoves DEF RemovalsTyped
<1>4. job' \in JobRow /\ UNCHANGED <<job.status, job.attempt>>
    BY ZenonT(40), <1>1, NumbersAreNaturals
       DEF BuildStep, LoadEligibleDataset, OpenRetainedFinal, PrepareStage,
           RecordAttemptManifest, TransitionStageMarker, CheckRename, RenameStage,
           VerifyPreverifiedFinal, MarkAttemptPublished, rows, RowsTyped, JobRow
<1>5. attempts' \in [Numbers -> AttemptRow]
    <2>1. CASE RecordAttemptManifest(w)
        <3>1. \/ UNCHANGED attempts
              \/ attempts' = [attempts EXCEPT ![wk[w].attempt] =
                               [@ EXCEPT !.status = "staged", !.manifest = TRUE]]
            BY <1>1, <2>1 DEF RecordAttemptManifest, RowsTyped, AttemptRow
        <3>2. [attempts[wk[w].attempt] EXCEPT !.status = "staged", !.manifest = TRUE]
                \in AttemptRow
            BY <1>1 DEF RowsTyped, AttemptRow, AttemptStatus, ActiveAttempt
        <3>3. QED
            BY <1>1, <3>1, <3>2 DEF RowsTyped
    <2>2. CASE MarkAttemptPublished(w)
        <3>1. \/ UNCHANGED attempts
              \/ attempts' = [attempts EXCEPT ![wk[w].attempt].status = "published"]
            BY <2>2 DEF MarkAttemptPublished
        <3>2. QED
            BY SMTT(30), <1>1, <3>1, SetStatusType DEF RowsTyped, AttemptStatus, ActiveAttempt
    <2>3. QED
        BY <2>1, <2>2
           DEF BuildStep, LoadEligibleDataset, OpenRetainedFinal, PrepareStage,
               TransitionStageMarker, CheckRename, RenameStage, VerifyPreverifiedFinal,
               rows, RowsTyped
<1>6. RowsTyped'
    BY <1>4, <1>5, OperationMoves DEF RowsTyped
<1>7. DirTyped'
    <2>1. CASE PrepareStage(w)
        BY <1>1, <2>1 DEF PrepareStage, DirTyped, Directory
    <2>2. CASE TransitionStageMarker(w)
        BY <1>1, <2>2, SetContentType DEF TransitionStageMarker, DirTyped
    <2>3. CASE RenameStage(w)
        BY <1>1, <2>3, NoDirectoryType DEF RenameStage, DirTyped, Directory
    <2>4. QED
        BY <2>1, <2>2, <2>3
           DEF BuildStep, LoadEligibleDataset, OpenRetainedFinal, RecordAttemptManifest,
               CheckRename, VerifyPreverifiedFinal, MarkAttemptPublished, DirTyped
<1>8. QED
    BY <1>2, <1>3, <1>6, <1>7

LEMMA CompleteType ==
    ASSUME TypeOK, NEW w \in Workers, Complete(w)
    PROVE  TypeOK'
<1> USE TypeParts, TypePartsNext
<1>1. wk[w].phase # "idle" /\ wk[w].attempt \in Numbers
    BY DEF Complete, At, WorkersTyped
<1>2. CASE MayComplete(w) /\ job.manifest = wk[w].attempt /\ BundleStands(wk[w].attempt)
    <2>1. attempts' \in [Numbers -> AttemptRow]
        BY <1>1, <1>2, SetStatusType DEF Complete, RowsTyped, AttemptStatus
    <2>2. RowsTyped'
        BY <1>2, <2>1
           DEF Complete, RowsTyped, JobRow, JobStatus, MayComplete, LiveClaim, Owned
    <2>3. QED
        BY <1>2, <2>2, EndType DEF Complete, DirTyped, RemovalsTyped
<1>3. CASE ~(MayComplete(w) /\ job.manifest = wk[w].attempt /\ BundleStands(wk[w].attempt))
    <2>1. UNCHANGED <<rows, dir, rm>>
        BY <1>3 DEF Complete, rows
    <2>2. WorkersTyped'
        BY <1>1, <1>3, RaiseType, RecheckFailsType DEF Complete, JobErrorCodes
    <2>3. QED
        BY <2>1, <2>2 DEF rows, RowsTyped, DirTyped, RemovalsTyped
<1>4. QED
    BY <1>2, <1>3

LEMMA StartRemovalType ==
    ASSUME RemovalsTyped, NEW r \in Reconcilers, NEW id \in Nat, NEW n \in Numbers,
           NEW final \in BOOLEAN, StartRemoval(r, id, n, final)
    PROVE  RemovalsTyped'
<1>1. [NoRemoval EXCEPT !.step = "stage", !.attempt = n, !.final = final,
                        !.operation = id] \in Removal
    BY NumbersAreNaturals DEF NoRemoval, Removal, RemovalStep
<1>2. QED
    BY <1>1 DEF StartRemoval, RemovalsTyped, Removers, NoRemoval

LEMMA ReconcileType ==
    ASSUME TypeOK, NEW r \in Reconcilers,
           RegisterReconcile(r) \/ ResumeReconcile(r) \/ PersistReconcile(r)
             \/ ReconcileStops(r)
    PROVE  TypeOK'
<1> USE TypeParts, TypePartsNext
<1>1. r \in Removers
    BY DEF Removers
<1>2. CASE RegisterReconcile(r)
    <2>1. PICK n \in Numbers, final \in BOOLEAN :
            /\ operation' = [id |-> operation.id + 1, open |-> TRUE, attempt |-> n,
                             final |-> final]
            /\ StartRemoval(r, operation.id + 1, n, final)
        BY <1>2 DEF RegisterReconcile, RowsTyped, AttemptRow
    <2>2. operation.id + 1 \in Nat
        BY DEF RowsTyped, Operation
    <2>3. operation' \in Operation /\ operation'.attempt \in Numbers
        BY <2>1, <2>2, NumbersAreNaturals DEF Operation
    <2>4. RowsTyped'
        BY <1>2, <2>3 DEF RegisterReconcile, RowsTyped
    <2>5. RemovalsTyped'
        BY <2>1, <2>2, StartRemovalType
    <2>6. QED
        BY <1>2, <2>4, <2>5 DEF RegisterReconcile, DirTyped, WorkersTyped
<1>3. CASE ResumeReconcile(r)
    <2>1. RemovalsTyped'
        BY <1>3, StartRemovalType DEF ResumeReconcile, RowsTyped, Operation
    <2>2. QED
        BY <1>3, <2>1 DEF ResumeReconcile, rows, RowsTyped, DirTyped, WorkersTyped
<1>4. CASE PersistReconcile(r)
    <2>1. rm[r].attempt \in Numbers
        BY <1>1, <1>4 DEF PersistReconcile, RemovalsTyped
    <2>2. attempts' \in [Numbers -> AttemptRow]
        <3>1. \/ UNCHANGED attempts
              \/ attempts' = [attempts EXCEPT ![rm[r].attempt].cleaned = TRUE]
            BY <1>4 DEF PersistReconcile
        <3>2. QED
            BY <2>1, <3>1, SetCleanedType DEF RowsTyped
    <2>3. operation' \in Operation /\ (operation'.open => operation'.attempt \in Numbers)
        BY <1>4 DEF PersistReconcile, RowsTyped, Operation
    <2>4. QED
        BY <1>1, <1>4, <2>2, <2>3, StopRemovalType
           DEF PersistReconcile, RowsTyped, DirTyped, WorkersTyped
<1>5. CASE ReconcileStops(r)
    BY <1>1, <1>5, StopRemovalType
       DEF ReconcileStops, rows, RowsTyped, DirTyped, WorkersTyped
<1>6. QED
    BY <1>2, <1>3, <1>4, <1>5

LEMMA NextType == TypeOK /\ [Next]_vars => TypeOK'
<1> SUFFICES ASSUME TypeOK, [Next]_vars PROVE TypeOK'
    OBVIOUS
<1>1. CASE UNCHANGED vars
    BY <1>1 DEF vars, TypeOK
<1>2. ASSUME NEW w \in Workers,
             Claim(w) \/ ClaimFails(w) \/ Process(w) \/ WorkerCrash(w)
      PROVE  TypeOK'
    <2>1. w \in Removers
        BY DEF Removers
    <2>2. QED
        BY <1>2, <2>1, ClaimType, ClaimFailsType, FailureType, RemoveType,
           ConfirmCleanupType, OperationType, CompleteType DEF Process, BuildStep
<1>3. ASSUME NEW r \in Reconcilers,
             \/ RegisterReconcile(r) \/ ResumeReconcile(r) \/ Remove(r)
             \/ PersistReconcile(r) \/ ReconcileStops(r)
      PROVE  TypeOK'
    <2>1. r \in Removers
        BY DEF Removers
    <2>2. QED
        BY <1>3, <2>1, ReconcileType, RemoveType
<1>4. QED
    BY <1>1, <1>2, <1>3, WorldType DEF Next

\* Rows, directories and the memory of every process stay well typed, and what
\* is at work names an attempt.
THEOREM TypeCorrect == Spec => []TypeOK
<1>1. QED
    BY InitType, NextType, PTL DEF Spec

(***************************************************************************)
(* The rows of the job: OneActiveAttempt with what makes it inductive.     *)
(***************************************************************************)

\* A number above the job's own is unused, and so is every one of a job that
\* nobody claimed.
FreshNumbers ==
    \A n \in Numbers :
      job.status \in {"absent", "queued"} \/ n > job.attempt => attempts[n] = NoAttempt

\* A worker remembers an attempt that exists, and no other worker does.
DistinctClaims ==
    \A w \in Workers : wk[w].phase # "idle" =>
      /\ attempts[wk[w].attempt].status # "none"
      /\ \A v \in Workers \ {w} : wk[v].phase # "idle" => wk[v].attempt # wk[w].attempt

\* Whatever is being removed was given up.
RemovalsOfGivenUp ==
    /\ \A p \in Removers :
         rm[p].step # "none" => attempts[rm[p].attempt].status \in GivenUp
    /\ operation.open => attempts[operation.attempt].status \in GivenUp

RowsInv ==
    TypeOK /\ OneActiveAttempt /\ FreshNumbers /\ DistinctClaims /\ RemovalsOfGivenUp

LEMMA InitRows == Init => RowsInv
BY InitType
   DEF Init, RowsInv, OneActiveAttempt, FreshNumbers, DistinctClaims, RemovalsOfGivenUp,
       NoAttempt, ActiveAttempt, IdleWorker, NoRemoval

(***************************************************************************)
(* What a step can do to the rows and to who refers to them.               *)
(***************************************************************************)

WorkersKeep ==
    \A w \in Workers :
      wk'[w].phase # "idle" => wk[w].phase # "idle" /\ wk'[w].attempt = wk[w].attempt

RemovalsKeep ==
    /\ \A p \in Removers :
         rm'[p].step # "none" =>
           \/ rm[p].step # "none" /\ rm'[p].attempt = rm[p].attempt
           \/ attempts[rm'[p].attempt].status \in GivenUp /\ rm'[p].attempt \in Numbers
    /\ operation'.open =>
         \/ operation.open /\ operation'.attempt = operation.attempt
         \/ attempts[operation'.attempt].status \in GivenUp

\* The status of the job stays; an attempt at work goes on, and may record its
\* manifest; one that was given up may become cleaned.
QuietRows ==
    /\ job'.status = job.status /\ job'.attempt = job.attempt
    /\ \A n \in Numbers :
         \/ attempts'[n] = attempts[n]
         \/ /\ attempts[n].status \in ActiveAttempt /\ attempts'[n].status \in ActiveAttempt
            /\ attempts[n].manifest => attempts'[n].manifest
            /\ attempts'[n].cleaned = attempts[n].cleaned
         \/ /\ attempts[n].status \in GivenUp
            /\ attempts'[n] = [attempts[n] EXCEPT !.cleaned = TRUE]

\* The current attempt of a running job ends, and the job with it.
Ends(status) ==
    /\ job.status = "running" /\ job.attempt \in Numbers
    /\ job'.status = status /\ job'.attempt = job.attempt
    /\ attempts' = [attempts EXCEPT ![job.attempt].status = status]

\* A job that nobody claimed is enqueued or cancelled.
Unclaimed ==
    /\ \/ job.status = "absent" /\ job'.status = "queued" /\ job'.attempt = 1
       \/ job.status = "queued" /\ job'.status = "cancelled" /\ job'.attempt = job.attempt
    /\ UNCHANGED attempts

LEMMA QuietStep ==
    ASSUME RowsInv, TypeOK', QuietRows, WorkersKeep, RemovalsKeep
    PROVE  RowsInv'
<1> USE DEF RowsInv
<1>1. \A n \in Numbers :
        /\ attempts'[n].status \in ActiveAttempt <=> attempts[n].status \in ActiveAttempt
        /\ attempts[n].status \in GivenUp => attempts'[n].status \in GivenUp
        /\ attempts[n].status # "none" => attempts'[n].status # "none"
        /\ attempts[n] = NoAttempt => attempts'[n] = NoAttempt
    <2> SUFFICES ASSUME NEW n \in Numbers
                 PROVE  /\ attempts'[n].status \in ActiveAttempt
                             <=> attempts[n].status \in ActiveAttempt
                        /\ attempts[n].status \in GivenUp => attempts'[n].status \in GivenUp
                        /\ attempts[n].status # "none" => attempts'[n].status # "none"
                        /\ attempts[n] = NoAttempt => attempts'[n] = NoAttempt
        OBVIOUS
    <2>1. CASE attempts'[n] = attempts[n]
        BY <2>1
    <2>2. CASE attempts[n].status \in ActiveAttempt /\ attempts'[n].status \in ActiveAttempt
        BY <2>2 DEF ActiveAttempt, GivenUp, NoAttempt
    <2>3. CASE /\ attempts[n].status \in GivenUp
               /\ attempts'[n] = [attempts[n] EXCEPT !.cleaned = TRUE]
        <3>1. attempts[n] \in AttemptRow
            BY TypeParts DEF RowsTyped
        <3>2. attempts'[n].status = attempts[n].status
            BY <2>3, <3>1 DEF AttemptRow
        <3>3. QED
            BY <2>3, <3>2 DEF GivenUp, NoAttempt
    <2>4. QED
        BY <2>1, <2>2, <2>3 DEF QuietRows
<1>2. OneActiveAttempt'
    BY <1>1 DEF OneActiveAttempt, QuietRows
<1>3. FreshNumbers'
    BY <1>1 DEF FreshNumbers, QuietRows
<1>4. DistinctClaims'
    BY <1>1, TypeParts DEF DistinctClaims, WorkersKeep, WorkersTyped
<1>5. RemovalsOfGivenUp'
    BY <1>1, TypeParts, TypePartsNext
       DEF RemovalsOfGivenUp, RemovalsKeep, RemovalsTyped, RowsTyped
<1>6. QED
    BY <1>2, <1>3, <1>4, <1>5

LEMMA EndsStep ==
    ASSUME RowsInv, TypeOK', WorkersKeep, RemovalsKeep,
           NEW status \in {"succeeded", "failed", "cancelled"}, Ends(status)
    PROVE  RowsInv'
<1> USE DEF RowsInv
<1>1. \A n \in Numbers :
        /\ n # job.attempt => attempts'[n] = attempts[n]
        /\ n = job.attempt => attempts'[n].status = status
    BY TypeParts DEF Ends, RowsTyped, AttemptRow
<1>2. attempts[job.attempt].status \in ActiveAttempt
    BY DEF OneActiveAttempt, Ends
<1>3. OneActiveAttempt'
    BY <1>1 DEF OneActiveAttempt, Ends, ActiveAttempt
<1>4. FreshNumbers'
    BY <1>1, NumbersAreNaturals DEF FreshNumbers, Ends
<1>5. DistinctClaims'
    BY <1>1, TypeParts DEF DistinctClaims, WorkersKeep, WorkersTyped
<1>6. RemovalsOfGivenUp'
    <2>1. \A n \in Numbers :
            attempts[n].status \in GivenUp => attempts'[n].status \in GivenUp
        BY <1>1, <1>2 DEF ActiveAttempt, GivenUp
    <2>2. ASSUME NEW p \in Removers, rm'[p].step # "none"
          PROVE  attempts'[rm'[p].attempt].status \in GivenUp
        BY <2>1, <2>2, TypeParts DEF RemovalsOfGivenUp, RemovalsKeep, RemovalsTyped
    <2>3. operation'.open => attempts'[operation'.attempt].status \in GivenUp
        BY <2>1, TypePartsNext DEF RemovalsOfGivenUp, RemovalsKeep, RowsTyped
    <2>4. QED
        BY <2>2, <2>3 DEF RemovalsOfGivenUp
<1>7. QED
    BY <1>3, <1>4, <1>5, <1>6

LEMMA UnclaimedStep ==
    ASSUME RowsInv, TypeOK', Unclaimed, WorkersKeep, RemovalsKeep
    PROVE  RowsInv'
<1> USE DEF RowsInv
<1>1. \A n \in Numbers : attempts'[n] = NoAttempt
    BY DEF Unclaimed, FreshNumbers
<1>2. OneActiveAttempt' /\ FreshNumbers'
    BY <1>1 DEF OneActiveAttempt, FreshNumbers, Unclaimed, NoAttempt, ActiveAttempt
<1>3. DistinctClaims'
    BY DEF DistinctClaims, WorkersKeep, Unclaimed
<1>4. RemovalsOfGivenUp'
    BY DEF RemovalsOfGivenUp, RemovalsKeep, Unclaimed
<1>5. QED
    BY <1>2, <1>3, <1>4

\* The rows after a claim that wrote status into the attempt it added.
LEMMA NewAttempt ==
    ASSUME RowsInv, Claimable, NEW status \in AttemptStatus, NextNumber \in Numbers,
           attempts' = [Reclaimed EXCEPT ![NextNumber].status = status]
    PROVE  /\ attempts[NextNumber] = NoAttempt
           /\ attempts'[NextNumber] = [NoAttempt EXCEPT !.status = status]
           /\ job.status = "running" =>
                /\ job.attempt \in Numbers /\ job.attempt # NextNumber
                /\ attempts[job.attempt].status \in ActiveAttempt
                /\ attempts'[job.attempt] =
                     [attempts[job.attempt] EXCEPT !.status = "reclaimed"]
           /\ \A n \in Numbers \ {NextNumber} :
                ~(job.status = "running" /\ n = job.attempt) => attempts'[n] = attempts[n]
<1> USE TypeParts DEF RowsInv
<1>1. attempts[NextNumber] = NoAttempt
    BY NumbersAreNaturals DEF Claimable, NextNumber, FreshNumbers, RowsTyped, JobRow
<1>2. CASE job.status = "running"
    <2>1. job.attempt \in Numbers /\ job.attempt # NextNumber
        BY <1>2, NumbersAreNaturals DEF NextNumber, RowsTyped
    <2>2. attempts[job.attempt].status \in ActiveAttempt
        BY <1>2, <2>1 DEF OneActiveAttempt
    <2>3. Reclaimed = [attempts EXCEPT ![job.attempt].status = "reclaimed"]
        BY <1>2 DEF Reclaimed
    <2>4. QED
        BY <1>1, <1>2, <2>1, <2>2, <2>3 DEF RowsTyped
<1>3. CASE job.status # "running"
    <2>1. Reclaimed = attempts
        BY <1>3 DEF Reclaimed
    <2>2. QED
        BY <1>1, <1>3, <2>1 DEF RowsTyped
<1>4. QED
    BY <1>2, <1>3

LEMMA ClaimRows ==
    ASSUME RowsInv, NEW w \in Workers, Claim(w)
    PROVE  RowsInv'
<1> USE TypeParts, TypePartsNext DEF RowsInv
<1>1. TypeOK'
    BY ClaimType
<1>2. /\ Claimable /\ NextNumber \in Numbers
      /\ "running" \in AttemptStatus
      /\ attempts' = [Reclaimed EXCEPT ![NextNumber].status = "running"]
    BY DEF Claim, AttemptStatus, ActiveAttempt
<1>3. job'.status = "running" /\ job'.attempt = NextNumber
    BY DEF Claim, RowsTyped, JobRow
<1>4. /\ attempts[NextNumber] = NoAttempt
      /\ attempts'[NextNumber].status = "running"
      /\ job.status = "running" =>
           /\ job.attempt \in Numbers
           /\ attempts[job.attempt].status \in ActiveAttempt
           /\ attempts'[job.attempt].status = "reclaimed"
      /\ \A n \in Numbers \ {NextNumber} :
           ~(job.status = "running" /\ n = job.attempt) => attempts'[n] = attempts[n]
    <2>1. [NoAttempt EXCEPT !.status = "running"].status = "running"
        BY DEF NoAttempt
    <2>2. job.status = "running" /\ job.attempt \in Numbers =>
            [attempts[job.attempt] EXCEPT !.status = "reclaimed"].status = "reclaimed"
        BY DEF RowsTyped, AttemptRow
    <2>3. QED
        BY <1>2, <2>1, <2>2, NewAttempt
<1>5. \A n \in Numbers :
        /\ attempts[n].status \in GivenUp => attempts'[n].status \in GivenUp
        /\ attempts[n].status # "none" => attempts'[n].status # "none" /\ n # NextNumber
    BY <1>4 DEF ActiveAttempt, GivenUp, NoAttempt
<1>6. OneActiveAttempt'
    BY <1>2, <1>3, <1>4, NumbersAreNaturals
       DEF OneActiveAttempt, ActiveAttempt, Claimable
<1>7. FreshNumbers'
    <2>1. NextNumber \in Nat /\ job.attempt \in Nat /\ NextNumber >= job.attempt
        BY <1>2 DEF NextNumber, RowsTyped, JobRow
    <2>2. QED
        BY <1>3, <1>4, <2>1, NumbersAreNaturals DEF FreshNumbers
<1>8. DistinctClaims'
    <2>1. wk'[w].attempt = NextNumber /\ \A v \in Workers \ {w} : wk'[v] = wk[v]
        BY DEF Claim, WorkersTyped, IdleWorker
    <2>2. \A v \in Workers \ {w} : wk[v].phase # "idle" =>
            /\ wk[v].attempt \in Numbers /\ wk[v].attempt # NextNumber
            /\ attempts'[wk[v].attempt].status # "none"
        BY <1>5 DEF DistinctClaims, WorkersTyped
    <2>3. QED
        BY <1>4, <2>1, <2>2 DEF DistinctClaims
<1>9. RemovalsOfGivenUp'
    <2>1. ASSUME NEW p \in Removers, rm'[p].step # "none"
          PROVE  attempts'[rm'[p].attempt].status \in GivenUp
        <3>1. \/ rm'[p] = rm[p]
              \/ job.status = "running" /\ rm'[p] = StaleSurfaces(job.attempt)
            BY DEF Claim, RemovalsTyped
        <3>2. StaleSurfaces(job.attempt).attempt = job.attempt
            BY DEF StaleSurfaces, NoRemoval
        <3>3. QED
            BY <1>4, <1>5, <2>1, <3>1, <3>2
               DEF RemovalsOfGivenUp, RemovalsTyped, GivenUp
    <2>2. operation'.open => attempts'[operation'.attempt].status \in GivenUp
        BY <1>5 DEF Claim, RemovalsOfGivenUp, RowsTyped
    <2>3. QED
        BY <2>1, <2>2 DEF RemovalsOfGivenUp
<1>10. QED
    BY <1>1, <1>6, <1>7, <1>8, <1>9

LEMMA ClaimFailsRows ==
    ASSUME RowsInv, NEW w \in Workers, ClaimFails(w)
    PROVE  RowsInv'
<1> USE TypeParts, TypePartsNext DEF RowsInv
<1>1. TypeOK'
    BY ClaimFailsType
<1>2. /\ Claimable /\ NextNumber \in Numbers
      /\ "failed" \in AttemptStatus
      /\ attempts' = [Reclaimed EXCEPT ![NextNumber].status = "failed"]
    BY DEF ClaimFails, AttemptStatus, GivenUp
<1>3. job'.status = "failed" /\ job'.attempt = NextNumber
    BY DEF ClaimFails, RowsTyped, JobRow
<1>4. /\ attempts[NextNumber] = NoAttempt
      /\ attempts'[NextNumber].status = "failed"
      /\ job.status = "running" =>
           /\ job.attempt \in Numbers
           /\ attempts[job.attempt].status \in ActiveAttempt
           /\ attempts'[job.attempt].status = "reclaimed"
      /\ \A n \in Numbers \ {NextNumber} :
           ~(job.status = "running" /\ n = job.attempt) => attempts'[n] = attempts[n]
    <2>1. [NoAttempt EXCEPT !.status = "failed"].status = "failed"
        BY DEF NoAttempt
    <2>2. job.status = "running" /\ job.attempt \in Numbers =>
            [attempts[job.attempt] EXCEPT !.status = "reclaimed"].status = "reclaimed"
        BY DEF RowsTyped, AttemptRow
    <2>3. QED
        BY <1>2, <2>1, <2>2, NewAttempt
<1>5. \A n \in Numbers :
        /\ attempts[n].status \in GivenUp => attempts'[n].status \in GivenUp
        /\ attempts[n].status # "none" => attempts'[n].status # "none"
    BY <1>4 DEF ActiveAttempt, GivenUp, NoAttempt
<1>6. OneActiveAttempt'
    BY <1>2, <1>3, <1>4, NumbersAreNaturals
       DEF OneActiveAttempt, ActiveAttempt, Claimable
<1>7. FreshNumbers'
    <2>1. NextNumber \in Nat /\ job.attempt \in Nat /\ NextNumber >= job.attempt
        BY <1>2 DEF NextNumber, RowsTyped, JobRow
    <2>2. QED
        BY <1>3, <1>4, <2>1, NumbersAreNaturals DEF FreshNumbers
<1>8. DistinctClaims' /\ RemovalsOfGivenUp'
    BY <1>5 DEF ClaimFails, DistinctClaims, WorkersTyped, RemovalsOfGivenUp,
                RemovalsTyped, RowsTyped
<1>9. QED
    BY <1>1, <1>6, <1>7, <1>8

(***************************************************************************)
(* Every other step is one of the three kinds.                             *)
(***************************************************************************)

OtherStep ==
    /\ WorkersKeep /\ RemovalsKeep
    /\ QuietRows \/ Unclaimed \/ \E status \in {"succeeded", "failed", "cancelled"} : Ends(status)

LEMMA OtherStepRows ==
    ASSUME RowsInv, TypeOK', OtherStep
    PROVE  RowsInv'
BY QuietStep, UnclaimedStep, EndsStep DEF OtherStep

\* No removal begins.
RemovalsGoOn ==
    \A p \in Removers :
      rm'[p].step # "none" => rm[p].step # "none" /\ rm'[p].attempt = rm[p].attempt

LEMMA UnchangedRows ==
    ASSUME RowsInv, UNCHANGED rows, WorkersKeep, RemovalsGoOn
    PROVE  OtherStep
BY DEF rows, QuietRows, OtherStep, RemovalsKeep, RemovalsGoOn

LEMMA WorldRows ==
    ASSUME RowsInv,
           EnqueueTrainingJob \/ CancelTrainingJob \/ ChangeDataset
             \/ LoseRequester \/ LeaseLapses
    PROVE  OtherStep
<1> USE TypeParts DEF RowsInv, OtherStep
<1>1. WorkersKeep /\ RemovalsKeep
    BY DEF EnqueueTrainingJob, CancelTrainingJob, ChangeDataset, LoseRequester,
           LeaseLapses, WorkersKeep, RemovalsKeep
<1>2. CASE EnqueueTrainingJob
    BY <1>1, <1>2 DEF EnqueueTrainingJob, Unclaimed, RowsTyped, JobRow
<1>3. CASE CancelTrainingJob
    BY <1>1, <1>3 DEF CancelTrainingJob, Unclaimed, QuietRows, RowsTyped, JobRow
<1>4. CASE ChangeDataset \/ LoseRequester \/ LeaseLapses
    BY <1>1, <1>4
       DEF ChangeDataset, LoseRequester, LeaseLapses, QuietRows, RowsTyped, JobRow
<1>5. QED
    BY <1>2, <1>3, <1>4

LEMMA StopRemovalGoesOn ==
    ASSUME TypeOK, NEW p \in Removers, rm' = [rm EXCEPT ![p] = NoRemoval]
    PROVE  RemovalsGoOn
BY TypeParts DEF RemovalsGoOn, RemovalsTyped, NoRemoval

LEMMA WorkerMoves ==
    ASSUME TypeOK, NEW w \in Workers, wk[w].phase # "idle",
           \/ \E phase : Proceed(w, phase)
           \/ \E code : Raise(w, code)
           \/ wk' = [wk EXCEPT ![w] = IdleWorker]
           \/ wk' = [wk EXCEPT ![w].guarded = TRUE]
    PROVE  WorkersKeep
<1> USE TypeParts DEF WorkersKeep, WorkersTyped, Worker
<1>1. ASSUME NEW phase, Proceed(w, phase)
      PROVE  WorkersKeep
    <2>1. wk' = [wk EXCEPT ![w] = [@ EXCEPT !.phase = phase, !.guarded = FALSE]]
        BY <1>1 DEF Proceed
    <2>2. [wk[w] EXCEPT !.phase = phase, !.guarded = FALSE].attempt = wk[w].attempt
        OBVIOUS
    <2>3. QED
        BY <2>1, <2>2
<1>2. ASSUME NEW code, Raise(w, code)
      PROVE  WorkersKeep
    <2>1. wk' = [wk EXCEPT ![w] = [@ EXCEPT !.phase = "failing", !.guarded = FALSE,
                                            !.code = code]]
        BY <1>2 DEF Raise
    <2>2. [wk[w] EXCEPT !.phase = "failing", !.guarded = FALSE, !.code = code].attempt
            = wk[w].attempt
        OBVIOUS
    <2>3. QED
        BY <2>1, <2>2
<1>3. CASE wk' = [wk EXCEPT ![w] = IdleWorker]
    BY <1>3 DEF IdleWorker
<1>4. CASE wk' = [wk EXCEPT ![w].guarded = TRUE]
    BY <1>4
<1>5. QED
    BY <1>1, <1>2, <1>3, <1>4

LEMMA FailureRows ==
    ASSUME RowsInv, NEW w \in Workers,
           Guard(w) \/ OperationRaises(w) \/ FailOrCancel(w) \/ WorkerCrash(w)
    PROVE  OtherStep
<1> USE TypeParts DEF RowsInv
<1>1. wk[w].phase # "idle" /\ w \in Removers
    BY DEF Guard, OperationRaises, FailOrCancel, WorkerCrash, Operations, WorkingPhase,
           Removers
<1>2. WorkersKeep
    BY <1>1, WorkerMoves DEF Guard, OperationRaises, FailOrCancel, WorkerCrash
<1>3. RemovalsGoOn
    BY <1>1, StopRemovalGoesOn
       DEF Guard, OperationRaises, FailOrCancel, WorkerCrash, RemovalsGoOn
<1>4. CASE Guard(w) \/ OperationRaises(w) \/ WorkerCrash(w)
    BY <1>2, <1>3, <1>4, UnchangedRows DEF Guard, OperationRaises, WorkerCrash
<1>5. CASE FailOrCancel(w)
    <2>1. RemovalsKeep
        BY <1>3, <1>5 DEF FailOrCancel, RemovalsKeep, RemovalsGoOn
    <2>2. CASE UNCHANGED <<job, attempts>>
        BY <1>2, <2>1, <2>2 DEF OtherStep, QuietRows
    <2>3. CASE \E status \in {"failed", "cancelled"} :
                 /\ job.status = "running" /\ job.attempt = wk[w].attempt
                 /\ job' = [job EXCEPT !.status = status, !.live = FALSE]
                 /\ attempts' = [attempts EXCEPT ![job.attempt].status = status]
        <3>1. \E status \in {"failed", "cancelled"} : Ends(status)
            BY <1>1, <2>3 DEF Ends, RowsTyped, JobRow, WorkersTyped
        <3>2. QED
            BY <1>2, <2>1, <3>1 DEF OtherStep
    <2>4. QED
        BY <1>5, <2>2, <2>3 DEF FailOrCancel, Owned
<1>6. QED
    BY <1>4, <1>5

LEMMA RemoveKeeps ==
    ASSUME TypeOK, NEW p \in Removers, Remove(p)
    PROVE  WorkersKeep /\ RemovalsGoOn
<1> USE TypeParts
<1>1. rm[p].step # "none"
    BY RemoveMoves
<1>2. CASE \E step : RemovalGoesOn(p, step)
    BY <1>1, <1>2 DEF RemovalGoesOn, WorkersKeep, RemovalsGoOn, RemovalsTyped, Removal
<1>3. ASSUME NEW removed \in BOOLEAN, SurfaceDone(p, removed)
      PROVE  WorkersKeep /\ RemovalsGoOn
    <2>1. \A q \in Removers : rm'[q].attempt = rm[q].attempt /\ (q # p => rm'[q] = rm[q])
        BY <1>3 DEF SurfaceDone, RemovalsTyped, Removal
    <2>2. WorkersKeep
        BY <1>3 DEF SurfaceDone, Unguard, WorkersKeep, WorkersTyped, Worker
    <2>3. QED
        BY <1>1, <2>1, <2>2 DEF RemovalsGoOn
<1>4. QED
    BY <1>2, <1>3, RemoveMoves

LEMMA RemoveRows ==
    ASSUME RowsInv, NEW p \in Removers, Remove(p)
    PROVE  OtherStep
BY RemoveKeeps, RemoveMoves, UnchangedRows DEF RowsInv

LEMMA ConfirmCleanupRows ==
    ASSUME RowsInv, NEW w \in Workers, ConfirmCleanup(w)
    PROVE  OtherStep
<1> USE TypeParts DEF RowsInv
<1>1. wk[w].phase # "idle" /\ w \in Removers /\ rm[w].step # "none"
    BY DEF ConfirmCleanup, Removers
<1>2. WorkersKeep
    BY <1>1, WorkerMoves DEF ConfirmCleanup
<1>3. RemovalsKeep
    BY <1>1, StopRemovalGoesOn DEF ConfirmCleanup, RemovalsKeep, RemovalsGoOn
<1>4. attempts[rm[w].attempt].status \in GivenUp /\ rm[w].attempt \in Numbers
    BY <1>1 DEF RemovalsOfGivenUp, RemovalsTyped
<1>5. \/ UNCHANGED attempts
      \/ attempts' = [attempts EXCEPT ![rm[w].attempt].cleaned = TRUE]
    BY DEF ConfirmCleanup
<1>6. QuietRows
    BY <1>4, <1>5 DEF ConfirmCleanup, QuietRows, RowsTyped
<1>7. QED
    BY <1>2, <1>3, <1>6 DEF OtherStep

LEMMA BuildRows ==
    ASSUME RowsInv, NEW w \in Workers, BuildStep(w)
    PROVE  OtherStep
<1> USE TypeParts DEF RowsInv
<1>1. wk[w].phase # "idle" /\ wk[w].attempt \in Numbers
    BY OperationMoves DEF Operations, WorkersTyped
<1>2. WorkersKeep
    BY <1>1, OperationMoves, WorkerMoves
<1>3. RemovalsKeep
    BY OperationMoves DEF RemovalsKeep
<1>4. CASE RecordAttemptManifest(w)
    <2>1. CASE LiveClaim(w) /\ attempts[wk[w].attempt].status = "running"
        <3>1. /\ attempts' = [attempts EXCEPT ![wk[w].attempt] =
                               [@ EXCEPT !.status = "staged", !.manifest = TRUE]]
              /\ job' = [job EXCEPT !.manifest = wk[w].attempt]
            BY <1>1, <1>4, <2>1 DEF RecordAttemptManifest, RowsTyped, AttemptRow
        <3>2. QuietRows
            BY <1>1, <2>1, <3>1 DEF QuietRows, ActiveAttempt, RowsTyped, AttemptRow, JobRow
        <3>3. QED
            BY <1>2, <1>3, <3>2 DEF OtherStep
    <2>2. CASE UNCHANGED <<job, attempts>>
        BY <1>2, <1>3, <2>2 DEF OtherStep, QuietRows
    <2>3. QED
        BY <1>4, <2>1, <2>2 DEF RecordAttemptManifest
<1>5. CASE MarkAttemptPublished(w)
    <2>1. CASE /\ attempts[wk[w].attempt].status = "staged"
               /\ attempts' = [attempts EXCEPT ![wk[w].attempt].status = "published"]
               /\ UNCHANGED job
        <3>1. QuietRows
            BY <1>1, <2>1 DEF QuietRows, ActiveAttempt, RowsTyped, AttemptRow
        <3>2. QED
            BY <1>2, <1>3, <3>1 DEF OtherStep
    <2>2. CASE UNCHANGED <<job, attempts>>
        BY <1>2, <1>3, <2>2 DEF OtherStep, QuietRows
    <2>3. QED
        BY <1>5, <2>1, <2>2 DEF MarkAttemptPublished
<1>6. CASE UNCHANGED <<job, attempts>>
    BY <1>2, <1>3, <1>6 DEF OtherStep, QuietRows
<1>7. QED
    BY <1>4, <1>5, <1>6
       DEF BuildStep, LoadEligibleDataset, OpenRetainedFinal, PrepareStage,
           TransitionStageMarker, CheckRename, RenameStage, VerifyPreverifiedFinal, rows

LEMMA CompleteRows ==
    ASSUME RowsInv, NEW w \in Workers, Complete(w)
    PROVE  OtherStep
<1> USE TypeParts DEF RowsInv
<1>1. wk[w].phase # "idle" /\ wk[w].attempt \in Numbers
    BY DEF Complete, At, WorkersTyped
<1>2. WorkersKeep
    BY <1>1, WorkerMoves DEF Complete, RecheckFails
<1>3. RemovalsKeep
    BY DEF Complete, RemovalsKeep
<1>4. CASE MayComplete(w) /\ job.manifest = wk[w].attempt /\ BundleStands(wk[w].attempt)
    <2>1. Ends("succeeded")
        BY <1>1, <1>4
           DEF Complete, Ends, MayComplete, LiveClaim, Owned, RowsTyped, JobRow
    <2>2. QED
        BY <1>2, <1>3, <2>1 DEF OtherStep
<1>5. CASE UNCHANGED <<job, attempts>>
    BY <1>2, <1>3, <1>5 DEF OtherStep, QuietRows
<1>6. QED
    BY <1>4, <1>5 DEF Complete

LEMMA ReconcileRows ==
    ASSUME RowsInv, NEW r \in Reconcilers,
           RegisterReconcile(r) \/ ResumeReconcile(r) \/ PersistReconcile(r)
             \/ ReconcileStops(r)
    PROVE  OtherStep
<1> USE TypeParts DEF RowsInv
<1>1. r \in Removers
    BY DEF Removers
<1>2. WorkersKeep
    BY DEF RegisterReconcile, ResumeReconcile, PersistReconcile, ReconcileStops,
           WorkersKeep
<1>3. ASSUME NEW id, NEW n \in Numbers, NEW final, StartRemoval(r, id, n, final),
             attempts[n].status \in GivenUp,
             NEW p \in Removers, rm'[p].step # "none"
      PROVE  \/ rm[p].step # "none" /\ rm'[p].attempt = rm[p].attempt
             \/ attempts[rm'[p].attempt].status \in GivenUp /\ rm'[p].attempt \in Numbers
    BY <1>1, <1>3 DEF StartRemoval, RemovalsTyped, NoRemoval
<1>4. CASE RegisterReconcile(r)
    <2>1. PICK n \in Numbers, final \in BOOLEAN :
            /\ NeedsCleanup(n)
            /\ operation' = [id |-> operation.id + 1, open |-> TRUE, attempt |-> n,
                             final |-> final]
            /\ StartRemoval(r, operation.id + 1, n, final)
        BY <1>4 DEF RegisterReconcile, RowsTyped, AttemptRow
    <2>2. RemovalsKeep
        BY <1>3, <2>1 DEF RemovalsKeep, NeedsCleanup
    <2>3. QED
        BY <1>2, <1>4, <2>2 DEF RegisterReconcile, OtherStep, QuietRows
<1>5. CASE ResumeReconcile(r)
    <2>1. RemovalsKeep
        BY <1>3, <1>5
           DEF RemovalsKeep, ResumeReconcile, RemovalsOfGivenUp, RowsTyped, rows
    <2>2. QED
        BY <1>2, <1>5, <2>1 DEF ResumeReconcile, OtherStep, QuietRows, rows
<1>6. CASE PersistReconcile(r)
    <2>1. RemovalsKeep
        BY <1>1, <1>6, StopRemovalGoesOn
           DEF PersistReconcile, RemovalsKeep, RemovalsGoOn, RowsTyped, Operation
    <2>2. attempts[rm[r].attempt].status \in GivenUp /\ rm[r].attempt \in Numbers
        BY <1>1, <1>6 DEF PersistReconcile, RemovalsOfGivenUp, RemovalsTyped
    <2>3. \/ UNCHANGED attempts
          \/ attempts' = [attempts EXCEPT ![rm[r].attempt].cleaned = TRUE]
        BY <1>6 DEF PersistReconcile
    <2>4. QuietRows
        BY <1>6, <2>2, <2>3 DEF PersistReconcile, QuietRows, RowsTyped
    <2>5. QED
        BY <1>2, <2>1, <2>4 DEF OtherStep
<1>7. CASE ReconcileStops(r)
    BY <1>1, <1>2, <1>7, StopRemovalGoesOn, UnchangedRows DEF ReconcileStops
<1>8. QED
    BY <1>4, <1>5, <1>6, <1>7

LEMMA StepKinds ==
    ASSUME RowsInv, [Next]_vars
    PROVE  OtherStep \/ \E w \in Workers : Claim(w) \/ ClaimFails(w)
<1>1. CASE UNCHANGED vars
    BY <1>1, UnchangedRows DEF vars, rows, WorkersKeep, RemovalsGoOn
<1>2. ASSUME NEW w \in Workers, Process(w) \/ WorkerCrash(w)
      PROVE  OtherStep
    <2>1. w \in Removers
        BY DEF Removers
    <2>2. QED
        BY <1>2, <2>1, FailureRows, RemoveRows, ConfirmCleanupRows, BuildRows,
           CompleteRows DEF Process, BuildStep
<1>3. ASSUME NEW r \in Reconcilers,
             \/ RegisterReconcile(r) \/ ResumeReconcile(r) \/ Remove(r)
             \/ PersistReconcile(r) \/ ReconcileStops(r)
      PROVE  OtherStep
    <2>1. r \in Removers
        BY DEF Removers
    <2>2. QED
        BY <1>3, <2>1, ReconcileRows, RemoveRows
<1>4. QED
    BY <1>1, <1>2, <1>3, WorldRows DEF Next

LEMMA NextRows == RowsInv /\ [Next]_vars => RowsInv'
BY StepKinds, NextType, ClaimRows, ClaimFailsRows, OtherStepRows DEF RowsInv

\* Claims, reclaims, failures, refused commits and crashes never leave an
\* attempt at work that is not the current one of a running job.
THEOREM OneActiveAttemptHolds == Spec => []OneActiveAttempt
<1>1. RowsInv => OneActiveAttempt
    BY DEF RowsInv
<1>2. QED
    BY <1>1, InitRows, NextRows, PTL DEF Spec

LEMMA StepHistory ==
    ASSUME RowsInv, [Next]_vars, NEW n \in Numbers,
           attempts[n].status \in GivenUp \union {"succeeded"}
    PROVE  /\ attempts'[n].status = attempts[n].status
           /\ attempts'[n].manifest = attempts[n].manifest
           /\ attempts[n].cleaned => attempts'[n].cleaned
<1> USE TypeParts DEF RowsInv
<1>1. attempts[n].status \notin ActiveAttempt /\ attempts[n] # NoAttempt
    BY DEF ActiveAttempt, GivenUp, NoAttempt
<1>2. CASE attempts'[n] = attempts[n]
    BY <1>2
<1>3. CASE attempts'[n] = [attempts[n] EXCEPT !.cleaned = TRUE]
    BY <1>3 DEF RowsTyped, AttemptRow
<1>4. CASE OtherStep
    <2>1. ASSUME NEW status, Ends(status)
          PROVE  attempts'[n] = attempts[n]
        <3>1. n # job.attempt
            BY <1>1, <2>1 DEF Ends, OneActiveAttempt
        <3>2. QED
            BY <2>1, <3>1 DEF Ends, RowsTyped
    <2>2. QED
        BY <1>1, <1>2, <1>3, <1>4, <2>1 DEF OtherStep, QuietRows, Unclaimed
<1>5. ASSUME NEW w \in Workers, Claim(w) \/ ClaimFails(w)
      PROVE  attempts'[n] = attempts[n]
    <2>1. \E status \in {"running", "failed"} :
            /\ Claimable /\ NextNumber \in Numbers /\ status \in AttemptStatus
            /\ attempts' = [Reclaimed EXCEPT ![NextNumber].status = status]
        BY <1>5 DEF Claim, ClaimFails, AttemptStatus, ActiveAttempt, GivenUp
    <2>2. QED
        BY <1>1, <2>1, NewAttempt
<1>6. QED
    BY <1>2, <1>4, <1>5, StepKinds

\* No worker writes into the row of an attempt that ended, however late it
\* comes; only a cleanup may still be confirmed there.
THEOREM AttemptHistoryHolds == Spec => AttemptHistory
<1>1. RowsInv /\ [Next]_vars =>
        [\A n \in Numbers :
           attempts[n].status \in GivenUp \union {"succeeded"} =>
             /\ attempts'[n].status = attempts[n].status
             /\ attempts'[n].manifest = attempts[n].manifest
             /\ attempts[n].cleaned => attempts'[n].cleaned]_vars
    BY StepHistory
<1>2. QED
    BY <1>1, InitRows, NextRows, PTL DEF Spec, AttemptHistory

\* Only the final transaction takes a job to succeeded.
LEMMA SuccessIsComplete ==
    ASSUME TypeOK, [Next]_vars, job.status # "succeeded", job'.status = "succeeded"
    PROVE  \E w \in Workers :
             /\ Complete(w) /\ MayComplete(w)
             /\ job.manifest = wk[w].attempt /\ BundleStands(wk[w].attempt)
<1> USE TypeParts DEF RowsTyped, JobRow
<1>1. job' # job
    OBVIOUS
<1>2. ~(EnqueueTrainingJob \/ CancelTrainingJob \/ ChangeDataset \/ LoseRequester
         \/ LeaseLapses)
    BY <1>1 DEF EnqueueTrainingJob, CancelTrainingJob, ChangeDataset, LoseRequester,
                LeaseLapses
<1>3. ASSUME NEW w \in Workers, Claim(w) \/ ClaimFails(w) \/ WorkerCrash(w)
      PROVE  FALSE
    BY <1>1, <1>3 DEF Claim, ClaimFails, WorkerCrash, rows
<1>4. ASSUME NEW p \in Removers, Remove(p)
      PROVE  FALSE
    BY <1>1, <1>4, RemoveMoves DEF rows
<1>5. ASSUME NEW r \in Reconcilers,
             RegisterReconcile(r) \/ ResumeReconcile(r) \/ PersistReconcile(r)
               \/ ReconcileStops(r)
      PROVE  FALSE
    BY <1>1, <1>5 DEF RegisterReconcile, ResumeReconcile, PersistReconcile,
                      ReconcileStops, rows
<1>6. ASSUME NEW w \in Workers,
             Guard(w) \/ OperationRaises(w) \/ FailOrCancel(w) \/ ConfirmCleanup(w)
      PROVE  FALSE
    BY <1>1, <1>6 DEF Guard, OperationRaises, FailOrCancel, ConfirmCleanup, rows
<1>7. ASSUME NEW w \in Workers, BuildStep(w)
      PROVE  FALSE
    BY <1>1, <1>7
       DEF BuildStep, LoadEligibleDataset, OpenRetainedFinal, PrepareStage,
           RecordAttemptManifest, TransitionStageMarker, CheckRename, RenameStage,
           VerifyPreverifiedFinal, MarkAttemptPublished, rows
<1>8. PICK w \in Workers : Complete(w)
    BY <1>1, <1>2, <1>3, <1>4, <1>5, <1>6, <1>7
       DEF Next, Process, BuildStep, Removers, vars
<1>9. QED
    BY <1>1, <1>8 DEF Complete

\* A claim that is asked to stop never succeeds: the final transaction looks at
\* the request under the lock of the row.
THEOREM CancelledClaimNeverSucceedsHolds == Spec => CancelledClaimNeverSucceeds
<1>1. ASSUME TypeOK, [Next]_vars, job.status = "running", job.cancel
      PROVE  job'.status # "succeeded"
    BY <1>1, SuccessIsComplete DEF MayComplete, LiveClaim
<1>2. TypeOK /\ [Next]_vars =>
        [job.status = "running" /\ job.cancel => job'.status # "succeeded"]_vars
    BY <1>1
<1>3. QED
    BY <1>2, InitType, NextType, PTL DEF Spec, CancelledClaimNeverSucceeds

(***************************************************************************)
(* The directories of a job: the final path, the cleanup of attempts that  *)
(* were given up, and the refinement of BundlePublication.                 *)
(***************************************************************************)

\* Phases of a worker that has not recorded its manifest, and of one that has.
Early == {"cleanup", "load", "open", "prepare", "record"}
Late == {"close", "rename", "renaming", "verify", "publish", "complete"}

\* A whole stage can still become a final.
WholeStage(n) == dir[n].at = "stage" /\ dir[n].content \in {"open", "closed"}

\* Of an attempt whose stage was dealt with no whole stage is left; of one that
\* was cleaned nothing whole, be it stage or final.  An attempt that recorded no
\* manifest cannot publish whatever its worker still prepares.
Spent(n) == attempts[n].manifest => ~WholeStage(n)
Dead(n) == attempts[n].manifest => dir[n].content \in {"none", "broken"}

\* A removal may leave the final path alone.
NoFinalNeeded(n) == attempts[n].manifest => job.status = "succeeded"

Directories ==
    /\ \A n \in Numbers :
         /\ dir[n].at = "none" => dir[n].content = "none"
         /\ InFinal(n) \/ dir[n].content = "closed" => attempts[n].manifest
    /\ \A m, n \in Numbers : InFinal(m) /\ InFinal(n) => m = n

ManifestsFollowPhases ==
    \A w \in Workers :
      /\ wk[w].phase \in Early => ~attempts[wk[w].attempt].manifest
      /\ wk[w].phase \in Late => attempts[wk[w].attempt].manifest

SuccessStands ==
    job.status = "succeeded" =>
      attempts[job.attempt].status = "succeeded" /\ BundleStands(job.attempt)

\* What a removal has achieved when it is at its step.
Achieved(r) ==
    /\ r.step \in {"final", "unlinking"} => Spent(r.attempt)
    /\ r.step \in {"rmdir", "finalRmdir"} => Dead(r.attempt)
    /\ r.step = "done" /\ ~r.blocked => Dead(r.attempt)
    /\ r.step # "none" /\ ~r.final => NoFinalNeeded(r.attempt)

RemovalsAchieve ==
    /\ \A p \in Removers : Achieved(rm[p])
    /\ operation.open /\ ~operation.final => NoFinalNeeded(operation.attempt)

CleanedIsDead ==
    \A n \in Numbers : attempts[n].cleaned => attempts[n].status \in GivenUp /\ Dead(n)

DirInv ==
    /\ RowsInv /\ Directories /\ ManifestsFollowPhases /\ SuccessStands
    /\ RemovalsAchieve /\ CleanedIsDead

LEMMA InitDir == Init => DirInv
<1> SUFFICES ASSUME Init PROVE DirInv
    OBVIOUS
<1>1. Directories
    BY DEF Init, Directories, NoDirectory, InFinal
<1>2. ManifestsFollowPhases
    BY DEF Init, ManifestsFollowPhases, IdleWorker, Early, Late
<1>3. SuccessStands /\ RemovalsAchieve /\ CleanedIsDead
    BY DEF Init, SuccessStands, RemovalsAchieve, Achieved, NoRemoval, CleanedIsDead,
           NoAttempt
<1>4. QED
    BY <1>1, <1>2, <1>3, InitRows DEF DirInv

(***************************************************************************)
(* What a step can do to the directory of an attempt.                      *)
(***************************************************************************)

\* An attempt without a manifest opens its stage.
Opens(n) ==
    ~attempts[n].manifest /\ dir'[n] = [at |-> "stage", content |-> "open"]

\* One with a manifest closes it.
Closes(n) ==
    /\ attempts[n].manifest
    /\ dir[n] = [at |-> "stage", content |-> "open"]
    /\ dir'[n] = [at |-> "stage", content |-> "closed"]

\* A removal breaks the directory of an attempt that was given up.
Breaks(n) ==
    /\ attempts[n].status \in GivenUp /\ dir[n].at # "none"
    /\ dir'[n] = [at |-> dir[n].at, content |-> "broken"]

\* A directory vanishes, whole only if its attempt was given up.
Vanishes(n) ==
    /\ dir'[n] = NoDirectory
    /\ attempts[n].status \in GivenUp \/ (InFinal(n) /\ dir[n].content = "broken")

\* The stage becomes the final, and no other final whole or broken remains.
Renamed(n) ==
    /\ attempts[n].manifest
    /\ dir[n].at = "stage"
    /\ \A m \in Numbers : InFinal(m) => dir[m].content = "broken"
    /\ dir'[n] = [at |-> "final", content |-> dir[n].content]
    /\ \A m \in Numbers \ {n} : dir'[m].at # "final"

DirChange(n) ==
    \/ dir'[n] = dir[n]
    \/ Opens(n) \/ Closes(n) \/ Breaks(n) \/ Vanishes(n) \/ Renamed(n)

DirStep == dir' \in [Numbers -> Directory] /\ \A n \in Numbers : DirChange(n)

LEMMA SetContent ==
    ASSUME DirTyped, NEW n \in Numbers, NEW content,
           dir' = [dir EXCEPT ![n].content = content]
    PROVE  /\ dir'[n] = [at |-> dir[n].at, content |-> content]
           /\ \A m \in Numbers \ {n} : dir'[m] = dir[m]
BY DEF DirTyped, Directory

LEMMA MovedDirectory ==
    ASSUME NEW d \in Directory
    PROVE  [d EXCEPT !.at = "final"] = [at |-> "final", content |-> d.content]
BY DEF Directory

LEMMA RemoveDir ==
    ASSUME DirInv, NEW p \in Removers, Remove(p), NEW n \in Numbers
    PROVE  DirChange(n)
<1> USE TypeParts DEF DirInv, RowsInv
<1> DEFINE a == rm[p].attempt
<1>1. a \in Numbers /\ attempts[a].status \in GivenUp
    BY RemoveMoves DEF RemovalsTyped, RemovalsOfGivenUp
<1>2. CASE UNCHANGED dir
    BY <1>2 DEF DirChange
<1>3. CASE dir' = [dir EXCEPT ![a].content = "broken"] /\ dir[a].at # "none"
    <2>1. n # a => dir'[n] = dir[n]
        BY <1>1, <1>3, SetContent
    <2>2. n = a => Breaks(n)
        BY <1>1, <1>3, SetContent DEF Breaks
    <2>3. QED
        BY <2>1, <2>2 DEF DirChange
<1>4. CASE dir' = [dir EXCEPT ![a] = NoDirectory]
    <2>1. n # a => dir'[n] = dir[n]
        BY <1>1, <1>4 DEF DirTyped
    <2>2. n = a => Vanishes(n)
        BY <1>1, <1>4 DEF DirTyped, Vanishes
    <2>3. QED
        BY <2>1, <2>2 DEF DirChange
<1>5. QED
    BY <1>2, <1>3, <1>4
       DEF Remove, OpenStage, EmptyStage, RemoveStage, VerifyOwnedFinal, UnlinkFinal,
           RemoveFinal, InFinal

LEMMA BuildDir ==
    ASSUME DirInv, NEW w \in Workers, BuildStep(w), NEW n \in Numbers
    PROVE  DirChange(n)
<1> USE TypeParts DEF DirInv, RowsInv
<1> DEFINE a == wk[w].attempt
<1>1. a \in Numbers
    BY OperationMoves DEF Operations, WorkersTyped
<1>2. CASE PrepareStage(w)
    <2>1. ~attempts[a].manifest
        BY <1>2 DEF PrepareStage, At, ManifestsFollowPhases, Early
    <2>2. CASE dir' = [dir EXCEPT ![a] = [at |-> "stage", content |-> "open"]]
        BY <1>1, <2>1, <2>2 DEF DirChange, Opens, DirTyped
    <2>3. CASE UNCHANGED dir
        BY <2>3 DEF DirChange
    <2>4. QED
        BY <1>2, <2>2, <2>3 DEF PrepareStage
<1>3. CASE TransitionStageMarker(w)
    <2>1. attempts[a].manifest
        BY <1>3 DEF TransitionStageMarker, At, ManifestsFollowPhases, Late
    <2>2. CASE /\ dir[a] = [at |-> "stage", content |-> "open"]
               /\ dir' = [dir EXCEPT ![a].content = "closed"]
        <3>1. n # a => dir'[n] = dir[n]
            BY <1>1, <2>2, SetContent
        <3>2. n = a => Closes(n)
            <4>1. dir'[a] = [at |-> dir[a].at, content |-> "closed"]
                BY <1>1, <2>2, SetContent
            <4>2. dir[a].at = "stage"
                BY <2>2
            <4>3. QED
                BY <2>1, <2>2, <4>1, <4>2 DEF Closes
        <3>3. QED
            BY <3>1, <3>2 DEF DirChange
    <2>3. CASE UNCHANGED dir
        BY <2>3 DEF DirChange
    <2>4. QED
        BY <1>3, <2>2, <2>3 DEF TransitionStageMarker
<1>4. CASE RenameStage(w)
    <2>1. attempts[a].manifest
        BY <1>4 DEF RenameStage, ManifestsFollowPhases, Late
    <2>2. CASE UNCHANGED dir
        BY <2>2 DEF DirChange
    <2>3. CASE /\ dir[a].at = "stage"
               /\ \A m \in Numbers : InFinal(m) => dir[m].content = "broken"
               /\ dir' = [m \in Numbers |->
                           CASE m = a -> [dir[a] EXCEPT !.at = "final"]
                             [] InFinal(m) -> NoDirectory
                             [] OTHER -> dir[m]]
        <3>1. dir'[a] = [at |-> "final", content |-> dir[a].content]
            <4>1. dir'[a] = [dir[a] EXCEPT !.at = "final"]
                <5>1. ~InFinal(a)
                    BY <2>3 DEF InFinal
                <5>2. QED
                    BY <1>1, <2>3, <5>1
            <4>2. dir[a] \in Directory
                BY <1>1 DEF DirTyped
            <4>3. [dir[a] EXCEPT !.at = "final"] = [at |-> "final", content |-> dir[a].content]
                BY <4>2, MovedDirectory
            <4>4. QED
                BY <4>1, <4>3
        <3>2. \A m \in Numbers \ {a} :
                /\ InFinal(m) => dir'[m] = NoDirectory
                /\ ~InFinal(m) => dir'[m] = dir[m]
            BY <2>3
        <3>3. \A m \in Numbers \ {a} : dir'[m].at # "final"
            BY <3>2 DEF InFinal, NoDirectory
        <3>4. Renamed(a)
            BY <2>1, <2>3, <3>1, <3>3 DEF Renamed
        <3>5. n # a => dir'[n] = dir[n] \/ Vanishes(n)
            BY <2>3, <3>2 DEF Vanishes
        <3>6. QED
            BY <3>4, <3>5 DEF DirChange
    <2>4. QED
        BY <1>4, <2>2, <2>3 DEF RenameStage
<1>5. CASE UNCHANGED dir
    BY <1>5 DEF DirChange
<1>6. QED
    BY <1>2, <1>3, <1>4, <1>5
       DEF BuildStep, LoadEligibleDataset, OpenRetainedFinal, RecordAttemptManifest,
           CheckRename, VerifyPreverifiedFinal, MarkAttemptPublished

LEMMA DirSteps ==
    ASSUME DirInv, [Next]_vars
    PROVE  DirStep
<1>1. dir' \in [Numbers -> Directory]
    BY NextType, TypePartsNext DEF DirInv, RowsInv, DirTyped
<1>2. ASSUME NEW n \in Numbers
      PROVE  DirChange(n)
    <2>1. CASE UNCHANGED dir
        BY <2>1 DEF DirChange
    <2>2. CASE UNCHANGED vars
        BY <2>2, <2>1 DEF vars
    <2>3. ASSUME NEW p \in Removers, Remove(p)
          PROVE  DirChange(n)
        BY <2>3, RemoveDir
    <2>4. ASSUME NEW w \in Workers,
                 \/ Claim(w) \/ ClaimFails(w) \/ WorkerCrash(w) \/ Guard(w)
                 \/ OperationRaises(w) \/ FailOrCancel(w) \/ ConfirmCleanup(w)
                 \/ Complete(w)
          PROVE  UNCHANGED dir
        BY <2>4 DEF Claim, ClaimFails, WorkerCrash, Guard, OperationRaises, FailOrCancel,
                    ConfirmCleanup, Complete
    <2>5. ASSUME NEW r \in Reconcilers,
                 RegisterReconcile(r) \/ ResumeReconcile(r) \/ PersistReconcile(r)
                   \/ ReconcileStops(r)
          PROVE  UNCHANGED dir
        BY <2>5 DEF RegisterReconcile, ResumeReconcile, PersistReconcile, ReconcileStops
    <2>6. CASE EnqueueTrainingJob \/ CancelTrainingJob \/ ChangeDataset
                 \/ LoseRequester \/ LeaseLapses
        BY <2>1, <2>6 DEF EnqueueTrainingJob, CancelTrainingJob, ChangeDataset,
                          LoseRequester, LeaseLapses
    <2>7. QED
        BY <2>1, <2>2, <2>3, <2>4, <2>5, <2>6, BuildDir
           DEF Next, Process, BuildStep, Removers
<1>3. QED
    BY <1>1, <1>2 DEF DirStep

(***************************************************************************)
(* What stays as it is.                                                    *)
(***************************************************************************)

LEMMA ManifestsGrow ==
    ASSUME RowsInv, [Next]_vars, NEW n \in Numbers, attempts[n].manifest
    PROVE  attempts'[n].manifest
<1> USE TypeParts DEF RowsInv
<1>1. attempts[n] # NoAttempt
    BY DEF NoAttempt
<1>2. CASE OtherStep
    BY ZenonT(40), <1>2 DEF OtherStep, QuietRows, Unclaimed, Ends, RowsTyped, AttemptRow
<1>3. ASSUME NEW w \in Workers, Claim(w) \/ ClaimFails(w)
      PROVE  attempts'[n].manifest
    <2>1. \E status \in {"running", "failed"} :
            /\ Claimable /\ NextNumber \in Numbers /\ status \in AttemptStatus
            /\ attempts' = [Reclaimed EXCEPT ![NextNumber].status = status]
        BY <1>3 DEF Claim, ClaimFails, AttemptStatus, ActiveAttempt, GivenUp
    <2>2. \/ attempts'[n] = attempts[n]
          \/ attempts'[n] = [attempts[n] EXCEPT !.status = "reclaimed"]
        BY <1>1, <2>1, NewAttempt
    <2>3. QED
        BY <2>2 DEF RowsTyped, AttemptRow
<1>4. QED
    BY <1>2, <1>3, StepKinds

LEMMA SuccessStays ==
    ASSUME RowsInv, [Next]_vars, job.status = "succeeded"
    PROVE  job'.status = "succeeded" /\ job'.attempt = job.attempt
BY StepKinds DEF OtherStep, QuietRows, Unclaimed, Ends, Claim, ClaimFails, Claimable

\* What a removal has achieved for an attempt that was given up is not undone.
LEMMA AchievedStays ==
    ASSUME DirInv, [Next]_vars, NEW n \in Numbers, attempts[n].status \in GivenUp
    PROVE  /\ attempts'[n].status \in GivenUp
           /\ Spent(n) => Spent(n)'
           /\ Dead(n) => Dead(n)'
           /\ NoFinalNeeded(n) => NoFinalNeeded(n)'
<1> USE DEF DirInv
<1>1. attempts'[n].status = attempts[n].status /\ attempts'[n].manifest = attempts[n].manifest
    BY StepHistory
<1>2. DirChange(n)
    BY DirSteps DEF DirStep
<1>3. Spent(n) => Spent(n)'
    BY <1>1, <1>2
       DEF DirChange, Opens, Closes, Breaks, Vanishes, Renamed, Spent, WholeStage,
           NoDirectory
<1>4. Dead(n) => Dead(n)'
    BY <1>1, <1>2
       DEF DirChange, Opens, Closes, Breaks, Vanishes, Renamed, Dead, NoDirectory
<1>5. NoFinalNeeded(n) => NoFinalNeeded(n)'
    BY <1>1, SuccessStays DEF NoFinalNeeded
<1>6. QED
    BY <1>1, <1>3, <1>4, <1>5

\* Only what was given up is touched when it is whole and final.
LEMMA StandingStays ==
    ASSUME DirInv, [Next]_vars, NEW n \in Numbers, BundleStands(n),
           attempts[n].status \notin GivenUp
    PROVE  dir'[n] = dir[n]
<1>1. attempts[n].manifest
    BY DEF DirInv, Directories, BundleStands, InFinal
<1>2. DirChange(n)
    BY DirSteps DEF DirStep
<1>3. QED
    BY <1>1, <1>2
       DEF BundleStands, DirChange, Opens, Closes, Breaks, Vanishes, Renamed, InFinal

LEMMA DirectoriesNext ==
    ASSUME DirInv, [Next]_vars
    PROVE  Directories'
<1> USE DEF DirInv
<1>1. ASSUME NEW n \in Numbers
      PROVE  /\ (dir[n].at = "none" => dir[n].content = "none")'
             /\ (InFinal(n) \/ dir[n].content = "closed" => attempts[n].manifest)'
    <2>1. attempts[n].manifest => attempts'[n].manifest
        BY ManifestsGrow
    <2>2. DirChange(n)
        BY DirSteps DEF DirStep
    <2>3. QED
        BY <2>1, <2>2
           DEF Directories, DirChange, Opens, Closes, Breaks, Vanishes, Renamed, InFinal,
               NoDirectory
<1>2. ASSUME NEW m \in Numbers, NEW n \in Numbers, InFinal(m)', InFinal(n)'
      PROVE  m = n
    <2>1. DirChange(m) /\ DirChange(n)
        BY DirSteps DEF DirStep
    <2>2. CASE Renamed(m) \/ Renamed(n)
        BY <1>2, <2>2 DEF Renamed, InFinal
    <2>3. CASE ~Renamed(m) /\ ~Renamed(n)
        <3>1. InFinal(m) /\ InFinal(n)
            BY <1>2, <2>1, <2>3
               DEF DirChange, Opens, Closes, Breaks, Vanishes, InFinal, NoDirectory
        <3>2. QED
            BY <3>1 DEF Directories
    <2>4. QED
        BY <2>2, <2>3
<1>3. QED
    BY <1>1, <1>2 DEF Directories

LEMMA SuccessNext ==
    ASSUME DirInv, [Next]_vars
    PROVE  SuccessStands'
<1> USE TypeParts DEF DirInv, RowsInv
<1> SUFFICES ASSUME job'.status = "succeeded"
             PROVE  attempts'[job'.attempt].status = "succeeded" /\ BundleStands(job.attempt)'
    BY DEF SuccessStands
<1>1. CASE job.status = "succeeded"
    <2>1. job'.attempt = job.attempt /\ job.attempt \in Numbers
        BY <1>1, SuccessStays DEF RowsTyped
    <2>2. attempts[job.attempt].status = "succeeded" /\ BundleStands(job.attempt)
        BY <1>1 DEF SuccessStands
    <2>3. attempts'[job.attempt].status = "succeeded"
        BY <2>1, <2>2, StepHistory
    <2>4. dir'[job.attempt] = dir[job.attempt]
        BY <2>1, <2>2, StandingStays DEF GivenUp
    <2>5. QED
        BY <2>1, <2>2, <2>3, <2>4 DEF BundleStands
<1>2. CASE job.status # "succeeded"
    <2>1. PICK w \in Workers :
            Complete(w) /\ MayComplete(w) /\ job.manifest = wk[w].attempt
              /\ BundleStands(wk[w].attempt)
        BY <1>2, SuccessIsComplete
    <2>2. job.attempt = wk[w].attempt /\ wk[w].attempt \in Numbers
        BY <2>1 DEF MayComplete, LiveClaim, Owned, RowsTyped
    <2>3. /\ job'.attempt = job.attempt
          /\ attempts' = [attempts EXCEPT ![wk[w].attempt].status = "succeeded"]
          /\ UNCHANGED dir
        BY <2>1 DEF Complete, RowsTyped, JobRow
    <2>4. QED
        BY <2>1, <2>2, <2>3 DEF BundleStands, RowsTyped, AttemptRow
<1>3. QED
    BY <1>1, <1>2

(***************************************************************************)
(* Removals.                                                               *)
(***************************************************************************)

StageSteps == {"stage", "emptying", "rmdir"}

LEMMA SurfaceMoves ==
    ASSUME TypeOK, NEW p \in Removers, NEW removed \in BOOLEAN, SurfaceDone(p, removed)
    PROVE  /\ rm'[p].attempt = rm[p].attempt /\ rm'[p].final = rm[p].final
           /\ rm'[p].step \in {"final", "done"}
           /\ rm'[p].step = "final" => rm[p].step \in StageSteps
           /\ rm'[p].step = "done" /\ ~rm'[p].blocked =>
                removed /\ (rm[p].step \in StageSteps => ~rm[p].final)
           /\ \A q \in Removers \ {p} : rm'[q] = rm[q]
<1> USE TypeParts
<1>1. PICK step \in {"final", "done"} :
        /\ rm' = [rm EXCEPT ![p].step = step, ![p].blocked = @ \/ ~removed]
        /\ step = "final" <=>
             rm[p].step \in StageSteps /\ rm[p].final /\ (removed \/ p \in Reconcilers)
    BY DEF SurfaceDone, StageSteps
<1>2. /\ rm'[p].attempt = rm[p].attempt /\ rm'[p].final = rm[p].final
      /\ rm'[p].step = step
      /\ rm'[p].blocked = (rm[p].blocked \/ ~removed)
      /\ \A q \in Removers \ {p} : rm'[q] = rm[q]
    BY <1>1 DEF RemovalsTyped, Removal
<1>3. QED
    BY <1>1, <1>2

LEMMA SurfaceAchieved ==
    ASSUME TypeOK, NEW p \in Removers, NEW removed \in BOOLEAN, SurfaceDone(p, removed),
           UNCHANGED rows, rm[p].step # "none", Achieved(rm[p]),
           rm[p].step \in StageSteps => Spent(rm[p].attempt)',
           removed /\ (rm[p].step \in StageSteps => ~rm[p].final) => Dead(rm[p].attempt)'
    PROVE  Achieved(rm[p])'
<1>1. NoFinalNeeded(rm[p].attempt) => NoFinalNeeded(rm[p].attempt)'
    BY SurfaceMoves DEF NoFinalNeeded, rows
<1>2. rm'[p].attempt = rm[p].attempt
    BY SurfaceMoves
<1>3. rm'[p].step = "final" => Spent(rm[p].attempt)'
    BY SurfaceMoves
<1>4. rm'[p].step = "done" /\ ~rm'[p].blocked => Dead(rm[p].attempt)'
    BY SurfaceMoves
<1>5. ~rm'[p].final => NoFinalNeeded(rm[p].attempt)'
    BY <1>1, SurfaceMoves DEF Achieved
<1>6. QED
    BY <1>2, <1>3, <1>4, <1>5, SurfaceMoves
       DEF Achieved, Spent, Dead, WholeStage, NoFinalNeeded

LEMMA GoesOnMoves ==
    ASSUME TypeOK, NEW p \in Removers, NEW step, RemovalGoesOn(p, step)
    PROVE  /\ rm'[p].attempt = rm[p].attempt /\ rm'[p].final = rm[p].final
           /\ rm'[p].step = step
           /\ \A q \in Removers \ {p} : rm'[q] = rm[q]
BY TypeParts DEF RemovalGoesOn, RemovalsTyped, Removal

LEMMA GoesOnAchieved ==
    ASSUME TypeOK, NEW p \in Removers, UNCHANGED rows,
           NEW step \in {"emptying", "rmdir", "unlinking", "finalRmdir"},
           RemovalGoesOn(p, step), rm[p].step # "none", Achieved(rm[p]),
           step = "unlinking" => Spent(rm[p].attempt)',
           step \in {"rmdir", "finalRmdir"} => Dead(rm[p].attempt)'
    PROVE  Achieved(rm[p])'
<1>1. NoFinalNeeded(rm[p].attempt) => NoFinalNeeded(rm[p].attempt)'
    BY GoesOnMoves DEF NoFinalNeeded, rows
<1>2. /\ rm'[p].attempt = rm[p].attempt /\ rm'[p].final = rm[p].final
      /\ rm'[p].step = step
    BY GoesOnMoves
<1>3. ~rm'[p].final => NoFinalNeeded(rm[p].attempt)'
    BY <1>1, <1>2 DEF Achieved
<1>4. QED
    BY <1>2, <1>3 DEF Achieved, Spent, Dead, WholeStage, NoFinalNeeded

\* The bundle of a job that succeeded occupies the final path.
LEMMA NotFinalBesideSuccess ==
    ASSUME DirInv, NEW n \in Numbers, attempts[n].status \in GivenUp, NoFinalNeeded(n),
           attempts[n].manifest
    PROVE  ~InFinal(n)
<1> USE TypeParts DEF DirInv, RowsInv
<1>1. job.status = "succeeded" /\ job.attempt \in Numbers
    BY DEF NoFinalNeeded, RowsTyped
<1>2. job.attempt # n /\ InFinal(job.attempt)
    BY <1>1 DEF SuccessStands, BundleStands, InFinal, GivenUp
<1>3. QED
    BY <1>1, <1>2 DEF Directories

LEMMA RemoveAchieved ==
    ASSUME DirInv, [Next]_vars, NEW p \in Removers, Remove(p)
    PROVE  Achieved(rm[p])'
<1> USE TypeParts DEF DirInv, RowsInv
<1> DEFINE a == rm[p].attempt
<1>1. /\ rm[p].step # "none" /\ a \in Numbers /\ UNCHANGED rows
      /\ attempts[a].status \in GivenUp
    BY RemoveMoves DEF RemovalsTyped, RemovalsOfGivenUp
<1>2. Achieved(rm[p])
    BY DEF RemovalsAchieve
<1>3. dir[a] \in Directory
    BY <1>1 DEF DirTyped
<1>4. /\ rm'[p].attempt = a
      /\ UNCHANGED <<attempts, job>>
    BY <1>1, RemoveMoves, SurfaceMoves, GoesOnMoves DEF rows
<1>5. /\ Spent(a) => Spent(a)'
      /\ Dead(a) => Dead(a)' /\ Spent(a)'
      /\ Dead(a)' => Spent(a)'
    <2>1. Spent(a) => Spent(a)'
        BY <1>1, <1>4, AchievedStays DEF Spent, WholeStage
    <2>2. Dead(a) => Dead(a)'
        BY <1>1, <1>4, AchievedStays DEF Dead
    <2>3. Dead(a)' => Spent(a)'
        BY DEF Dead, Spent, WholeStage
    <2>4. QED
        BY <2>1, <2>2, <2>3
<1>6. CASE OpenStage(p)
    <2>1. CASE dir[a].at = "stage"
        BY <1>1, <1>2, <1>6, <2>1, GoesOnAchieved DEF OpenStage
    <2>2. CASE dir[a].at # "stage"
        <3>1. SurfaceDone(p, TRUE) /\ UNCHANGED dir
            BY <1>6, <2>2 DEF OpenStage
        <3>2. Spent(a)'
            BY <1>5, <2>2 DEF Spent, WholeStage
        <3>3. ~rm[p].final => Dead(a)
            <4>1. ~rm[p].final /\ attempts[a].manifest => ~InFinal(a)
                BY <1>1, <1>2, NotFinalBesideSuccess DEF Achieved
            <4>2. QED
                BY <1>1, <1>3, <2>2, <4>1 DEF Dead, InFinal, Directories, Directory
        <3>4. rm[p].step \in StageSteps
            BY <1>6 DEF OpenStage, StageSteps
        <3>5. QED
            BY <1>1, <1>2, <1>5, <3>1, <3>2, <3>3, <3>4, SurfaceAchieved
    <2>3. QED
        BY <2>1, <2>2
<1>7. CASE EmptyStage(p)
    <2>1. CASE /\ dir' = [dir EXCEPT ![a].content = "broken"]
               /\ RemovalGoesOn(p, "rmdir")
        <3>1. Dead(a)'
            <4>1. dir'[a] = [at |-> dir[a].at, content |-> "broken"]
                BY <1>1, <2>1, SetContent
            <4>2. dir'[rm'[p].attempt].content = "broken"
                BY <1>4, <4>1
            <4>3. QED
                BY <4>2 DEF Dead
        <3>2. QED
            BY <1>1, <1>2, <2>1, <3>1, GoesOnAchieved
    <2>2. CASE /\ dir[a].content \in {"none", "broken"}
               /\ SurfaceDone(p, TRUE)
        <3>1. Dead(a)
            BY <2>2 DEF Dead
        <3>2. QED
            BY <1>1, <1>2, <1>5, <2>2, <3>1, SurfaceAchieved
    <2>3. QED
        BY <1>7, <2>1, <2>2 DEF EmptyStage
<1>8. CASE RemoveStage(p)
    <2>1. Dead(a)
        BY <1>2, <1>8 DEF RemoveStage, Achieved
    <2>2. \E removed \in BOOLEAN : SurfaceDone(p, removed)
        BY <1>8 DEF RemoveStage
    <2>3. QED
        BY <1>1, <1>2, <1>5, <2>1, <2>2, SurfaceAchieved
<1>9. CASE VerifyOwnedFinal(p)
    <2>1. Spent(a) /\ rm[p].step = "final"
        BY <1>2, <1>9 DEF VerifyOwnedFinal, Achieved
    <2>2. CASE FinalIsFree /\ SurfaceDone(p, TRUE)
        <3>1. Dead(a)
            BY <1>1, <1>3, <2>1, <2>2
               DEF Dead, Spent, WholeStage, FinalIsFree, InFinal, Directories, Directory
        <3>2. QED
            BY <1>1, <1>2, <1>5, <2>1, <2>2, <3>1, SurfaceAchieved
    <2>3. CASE RemovalGoesOn(p, "unlinking")
        BY <1>1, <1>2, <1>5, <2>1, <2>3, GoesOnAchieved
    <2>4. CASE SurfaceDone(p, FALSE)
        BY <1>1, <1>2, <1>5, <2>1, <2>4, SurfaceAchieved
    <2>5. QED
        BY <1>9, <2>2, <2>3, <2>4 DEF VerifyOwnedFinal
<1>10. CASE UnlinkFinal(p)
    <2>1. Spent(a) /\ rm[p].step = "unlinking"
        BY <1>2, <1>10 DEF UnlinkFinal, Achieved
    <2>2. CASE /\ dir' = [dir EXCEPT ![a].content = "broken"]
               /\ RemovalGoesOn(p, "finalRmdir")
        <3>1. Dead(a)'
            <4>1. dir'[a] = [at |-> dir[a].at, content |-> "broken"]
                BY <1>1, <2>2, SetContent
            <4>2. dir'[rm'[p].attempt].content = "broken"
                BY <1>4, <4>1
            <4>3. QED
                BY <4>2 DEF Dead
        <3>2. QED
            BY <1>1, <1>2, <2>2, <3>1, GoesOnAchieved
    <2>3. CASE /\ InFinal(a) => dir[a].content = "broken"
               /\ SurfaceDone(p, InFinal(a) \/ FinalIsFree)
        <3>1. Dead(a)
            BY <1>1, <1>3, <2>1, <2>3
               DEF Dead, Spent, WholeStage, InFinal, Directories, Directory
        <3>2. (InFinal(a) \/ FinalIsFree) \in BOOLEAN
            BY DEF InFinal, FinalIsFree
        <3>3. QED
            BY <1>1, <1>2, <1>5, <2>1, <2>3, <3>1, <3>2, SurfaceAchieved
    <2>4. QED
        BY <1>10, <2>2, <2>3 DEF UnlinkFinal
<1>11. CASE RemoveFinal(p)
    <2>1. Dead(a)
        BY <1>2, <1>11 DEF RemoveFinal, Achieved
    <2>2. \E removed \in BOOLEAN : SurfaceDone(p, removed)
        BY <1>11 DEF RemoveFinal, InFinal, FinalIsFree
    <2>3. QED
        BY <1>1, <1>2, <1>5, <2>1, <2>2, SurfaceAchieved
<1>12. QED
    BY <1>6, <1>7, <1>8, <1>9, <1>10, <1>11 DEF Remove

(***************************************************************************)
(* What a step does to the manifest and the cleanup of an attempt.         *)
(***************************************************************************)

FlagsKept ==
    \A n \in Numbers :
      attempts'[n].manifest = attempts[n].manifest /\ attempts'[n].cleaned = attempts[n].cleaned

LEMMA StatusKeepsFlags ==
    ASSUME TypeOK, NEW n \in Numbers, NEW status,
           attempts' = [attempts EXCEPT ![n].status = status]
    PROVE  FlagsKept
BY TypeParts DEF FlagsKept, RowsTyped, AttemptRow

LEMMA ClaimKeepsFlags ==
    ASSUME RowsInv, NEW w \in Workers, Claim(w) \/ ClaimFails(w)
    PROVE  FlagsKept
<1> USE TypeParts DEF RowsInv
<1>1. PICK status \in AttemptStatus :
        /\ Claimable /\ NextNumber \in Numbers
        /\ attempts' = [Reclaimed EXCEPT ![NextNumber].status = status]
    BY DEF Claim, ClaimFails, AttemptStatus, ActiveAttempt, GivenUp
<1>2. ASSUME NEW n \in Numbers
      PROVE  \/ attempts'[n] = attempts[n]
             \/ \E to : attempts'[n] = [attempts[n] EXCEPT !.status = to]
    BY ZenonT(40), <1>1, NewAttempt
<1>3. \A n \in Numbers : attempts[n] \in AttemptRow
    BY DEF RowsTyped
<1>4. QED
    BY <1>2, <1>3 DEF FlagsKept, AttemptRow

LEMMA StepFlags ==
    ASSUME RowsInv, [Next]_vars
    PROVE  \/ FlagsKept
           \/ \E w \in Workers : RecordAttemptManifest(w) \/ ConfirmCleanup(w)
           \/ \E r \in Reconcilers : PersistReconcile(r)
<1> USE TypeParts DEF RowsInv
<1>1. UNCHANGED attempts => FlagsKept
    BY DEF FlagsKept
<1>2. ASSUME NEW w \in Workers, Claim(w) \/ ClaimFails(w)
      PROVE  FlagsKept
    BY <1>2, ClaimKeepsFlags
<1>3. ASSUME NEW w \in Workers, wk[w].phase # "idle", NEW status,
             attempts' = [attempts EXCEPT ![wk[w].attempt].status = status]
      PROVE  FlagsKept
    BY <1>3, StatusKeepsFlags DEF WorkersTyped
<1>4. ASSUME NEW w \in Workers,
             FailOrCancel(w) \/ MarkAttemptPublished(w) \/ Complete(w)
      PROVE  FlagsKept
    BY <1>1, <1>3, <1>4 DEF FailOrCancel, MarkAttemptPublished, Complete, At
<1>5. ASSUME NEW w \in Workers,
             \/ Guard(w) \/ OperationRaises(w) \/ WorkerCrash(w)
             \/ LoadEligibleDataset(w) \/ OpenRetainedFinal(w) \/ PrepareStage(w)
             \/ TransitionStageMarker(w) \/ CheckRename(w) \/ RenameStage(w)
             \/ VerifyPreverifiedFinal(w)
      PROVE  UNCHANGED attempts
    BY <1>5
       DEF Guard, OperationRaises, WorkerCrash, LoadEligibleDataset, OpenRetainedFinal,
           PrepareStage, TransitionStageMarker, CheckRename, RenameStage,
           VerifyPreverifiedFinal, rows
<1>6. ASSUME NEW p \in Removers, Remove(p)
      PROVE  UNCHANGED attempts
    BY <1>6, RemoveMoves DEF rows
<1>7. ASSUME NEW r \in Reconcilers,
             RegisterReconcile(r) \/ ResumeReconcile(r) \/ ReconcileStops(r)
      PROVE  UNCHANGED attempts
    BY <1>7 DEF RegisterReconcile, ResumeReconcile, ReconcileStops, rows
<1>8. CASE EnqueueTrainingJob \/ CancelTrainingJob \/ ChangeDataset \/ LoseRequester
             \/ LeaseLapses
    BY <1>1, <1>8
       DEF EnqueueTrainingJob, CancelTrainingJob, ChangeDataset, LoseRequester, LeaseLapses
<1>9. CASE UNCHANGED vars
    BY <1>1, <1>9 DEF vars
<1>10. QED
    BY <1>1, <1>2, <1>4, <1>5, <1>6, <1>7, <1>8, <1>9 DEF Next, Process, Removers

LEMMA CleanedNext ==
    ASSUME DirInv, [Next]_vars
    PROVE  CleanedIsDead'
<1> USE TypeParts DEF DirInv, RowsInv
<1> SUFFICES ASSUME NEW n \in Numbers, attempts'[n].cleaned
             PROVE  attempts'[n].status \in GivenUp /\ Dead(n)'
    BY DEF CleanedIsDead
<1>1. CASE attempts[n].cleaned
    BY <1>1, AchievedStays DEF CleanedIsDead
<1>2. CASE ~attempts[n].cleaned
    <2>1. ASSUME NEW p \in Removers, rm[p].step = "done", ~rm[p].blocked,
                 attempts' = [attempts EXCEPT ![rm[p].attempt].cleaned = TRUE]
          PROVE  attempts'[n].status \in GivenUp /\ Dead(n)'
        <3>1. rm[p].attempt \in Numbers /\ attempts[rm[p].attempt].status \in GivenUp
            BY <2>1 DEF RemovalsTyped, RemovalsOfGivenUp
        <3>2. n = rm[p].attempt
            BY <1>2, <2>1, <3>1 DEF RowsTyped
        <3>3. Dead(rm[p].attempt)
            BY <2>1 DEF RemovalsAchieve, Achieved
        <3>4. QED
            BY <3>1, <3>2, <3>3, AchievedStays
    <2>2. UNCHANGED attempts => FALSE
        BY <1>2
    <2>3. FlagsKept => FALSE
        BY <1>2 DEF FlagsKept
    <2>4. ASSUME NEW w \in Workers, RecordAttemptManifest(w)
          PROVE  FALSE
        <3>1. \/ UNCHANGED attempts
              \/ attempts' = [attempts EXCEPT ![wk[w].attempt] =
                               [@ EXCEPT !.status = "staged", !.manifest = TRUE]]
            BY <2>4 DEF RecordAttemptManifest
        <3>2. QED
            BY <1>2, <3>1 DEF RowsTyped, AttemptRow
    <2>5. ASSUME NEW w \in Workers, ConfirmCleanup(w)
          PROVE  attempts'[n].status \in GivenUp /\ Dead(n)'
        BY <2>1, <2>2, <2>5 DEF ConfirmCleanup, Removers
    <2>6. ASSUME NEW r \in Reconcilers, PersistReconcile(r)
          PROVE  attempts'[n].status \in GivenUp /\ Dead(n)'
        BY <2>1, <2>2, <2>6 DEF PersistReconcile, Removers
    <2>7. QED
        BY <2>3, <2>4, <2>5, <2>6, StepFlags
<1>3. QED
    BY <1>1, <1>2

\* A removal goes on, ends or begins; one that leaves the final path alone begins
\* only where there is nothing to remove from it.
Begins(p) ==
    rm'[p].step = "stage" /\ (~rm'[p].final => NoFinalNeeded(rm[p].attempt)')

LEMMA StartsBegin ==
    ASSUME RemovalsTyped, NEW r \in Reconcilers, NEW id, NEW n, NEW final,
           StartRemoval(r, id, n, final), ~final => NoFinalNeeded(n), UNCHANGED <<job, attempts>>
    PROVE  Begins(r) /\ \A p \in Removers \ {r} : rm'[p] = rm[p]
<1>1. rm' = [rm EXCEPT ![r] = [NoRemoval EXCEPT !.step = "stage", !.attempt = n,
                                !.final = final, !.operation = id]]
    BY DEF StartRemoval
<1>2. r \in Removers
    BY DEF Removers
<1>3. rm'[r].step = "stage" /\ rm'[r].attempt = n /\ rm'[r].final = final
    BY <1>1, <1>2 DEF RemovalsTyped, NoRemoval
<1>4. QED
    BY <1>1, <1>3 DEF Begins, NoFinalNeeded, RemovalsTyped

LEMMA RemovalSteps ==
    ASSUME DirInv, [Next]_vars, NEW p \in Removers
    PROVE  rm'[p] = rm[p] \/ rm'[p].step = "none" \/ Remove(p) \/ Begins(p)
<1> USE TypeParts DEF DirInv, RowsInv
<1>1. CASE UNCHANGED rm
    BY <1>1
<1>2. ASSUME NEW q \in Removers, rm' = [rm EXCEPT ![q] = NoRemoval]
      PROVE  rm'[p] = rm[p] \/ rm'[p].step = "none"
    BY <1>2 DEF RemovalsTyped, NoRemoval
<1>3. ASSUME NEW q \in Removers, Remove(q)
      PROVE  rm'[p] = rm[p] \/ Remove(p)
    BY <1>3, RemoveMoves, SurfaceMoves, GoesOnMoves
<1>4. ASSUME NEW w \in Workers, Claim(w)
      PROVE  rm'[p] = rm[p] \/ Begins(p)
    <2>1. CASE p = w /\ job.status = "running"
        <3>1. rm'[p] = StaleSurfaces(job.attempt)
            BY <1>4, <2>1 DEF Claim, RemovalsTyped
        <3>2. /\ rm'[p].step = "stage" /\ rm'[p].attempt = job.attempt
              /\ rm'[p].final = attempts[job.attempt].manifest
            BY <3>1 DEF StaleSurfaces, NoRemoval
        <3>3. job.attempt \in Numbers
            BY <2>1 DEF RowsTyped
        <3>4. attempts'[job.attempt].manifest = attempts[job.attempt].manifest
            BY <1>4, <3>3, ClaimKeepsFlags DEF FlagsKept
        <3>5. QED
            BY <3>2, <3>4 DEF Begins, NoFinalNeeded
    <2>2. CASE ~(p = w /\ job.status = "running")
        BY <1>4, <2>2 DEF Claim, RemovalsTyped
    <2>3. QED
        BY <2>1, <2>2
<1>5. ASSUME NEW r \in Reconcilers, RegisterReconcile(r)
      PROVE  rm'[p] = rm[p] \/ Begins(p)
    <2>1. PICK n \in Numbers :
            StartRemoval(r, operation.id + 1, n,
                         job.status # "succeeded" /\ attempts[n].manifest)
        BY <1>5 DEF RegisterReconcile
    <2>2. ~(job.status # "succeeded" /\ attempts[n].manifest) => NoFinalNeeded(n)
        BY DEF NoFinalNeeded
    <2>3. UNCHANGED <<job, attempts>>
        BY <1>5 DEF RegisterReconcile
    <2>4. QED
        BY <2>1, <2>2, <2>3, StartsBegin
<1>6. ASSUME NEW r \in Reconcilers, ResumeReconcile(r)
      PROVE  rm'[p] = rm[p] \/ Begins(p)
    <2>1. /\ StartRemoval(r, operation.id, operation.attempt, operation.final)
          /\ ~operation.final => NoFinalNeeded(operation.attempt)
          /\ UNCHANGED <<job, attempts>>
        BY <1>6 DEF ResumeReconcile, RemovalsAchieve, rows
    <2>2. QED
        BY <2>1, StartsBegin
<1>7. ASSUME NEW w \in Workers,
             \/ Guard(w) \/ OperationRaises(w) \/ WorkerCrash(w) \/ ConfirmCleanup(w)
             \/ ClaimFails(w) \/ FailOrCancel(w) \/ Complete(w) \/ BuildStep(w)
      PROVE  UNCHANGED rm \/ rm' = [rm EXCEPT ![w] = NoRemoval]
    BY <1>7, OperationMoves DEF Guard, OperationRaises, WorkerCrash, ConfirmCleanup,
                                ClaimFails, FailOrCancel, Complete
<1>8. ASSUME NEW r \in Reconcilers, PersistReconcile(r) \/ ReconcileStops(r)
      PROVE  rm' = [rm EXCEPT ![r] = NoRemoval]
    BY <1>8 DEF PersistReconcile, ReconcileStops
<1>9. CASE EnqueueTrainingJob \/ CancelTrainingJob \/ ChangeDataset \/ LoseRequester
             \/ LeaseLapses
    BY <1>1, <1>9
       DEF EnqueueTrainingJob, CancelTrainingJob, ChangeDataset, LoseRequester, LeaseLapses
<1>10. CASE UNCHANGED vars
    BY <1>1, <1>10 DEF vars
<1>11. QED
    BY <1>1, <1>2, <1>3, <1>4, <1>5, <1>6, <1>7, <1>8, <1>9, <1>10
       DEF Next, Process, BuildStep, Removers

LEMMA RemovalsNext ==
    ASSUME DirInv, [Next]_vars
    PROVE  RemovalsAchieve'
<1> USE TypeParts DEF DirInv, RowsInv
<1>1. ASSUME NEW p \in Removers
      PROVE  Achieved(rm[p])'
    <2>1. CASE rm'[p].step = "none"
        BY <2>1 DEF Achieved
    <2>2. CASE Remove(p)
        BY <2>2, RemoveAchieved
    <2>3. CASE Begins(p)
        BY <2>3 DEF Begins, Achieved, NoFinalNeeded
    <2>4. CASE rm'[p] = rm[p] /\ rm[p].step # "none"
        <3>1. rm[p].attempt \in Numbers /\ attempts[rm[p].attempt].status \in GivenUp
            BY <2>4 DEF RemovalsTyped, RemovalsOfGivenUp
        <3>2. Achieved(rm[p])
            BY DEF RemovalsAchieve
        <3>3. DEFINE a == rm[p].attempt
        <3>4. /\ Spent(a) => (attempts'[a].manifest => ~(dir'[a].at = "stage"
                                /\ dir'[a].content \in {"open", "closed"}))
              /\ Dead(a) => (attempts'[a].manifest => dir'[a].content \in {"none", "broken"})
              /\ NoFinalNeeded(a) => (attempts'[a].manifest => job'.status = "succeeded")
            BY <2>4, <3>1, AchievedStays DEF Spent, Dead, NoFinalNeeded, WholeStage
        <3>5. QED
            BY <2>4, <3>2, <3>4 DEF Achieved, Spent, Dead, NoFinalNeeded, WholeStage
    <2>5. QED
        BY <2>1, <2>2, <2>3, <2>4, RemovalSteps
<1>2. (operation.open /\ ~operation.final => NoFinalNeeded(operation.attempt))'
    <2>1. CASE UNCHANGED operation
        <3>1. CASE operation.open /\ ~operation.final
            <4>1. /\ operation.attempt \in Numbers
                  /\ attempts[operation.attempt].status \in GivenUp
                  /\ NoFinalNeeded(operation.attempt)
                BY <3>1 DEF RowsTyped, RemovalsOfGivenUp, RemovalsAchieve
            <4>2. attempts'[operation.attempt].manifest => job'.status = "succeeded"
                BY <4>1, AchievedStays, StepHistory, SuccessStays DEF NoFinalNeeded
            <4>3. QED
                BY <2>1, <4>2 DEF NoFinalNeeded
        <3>2. QED
            BY <2>1, <3>1
    <2>2. ASSUME NEW r \in Reconcilers, RegisterReconcile(r)
          PROVE  ~operation'.final => NoFinalNeeded(operation.attempt)'
        <3>1. PICK n \in Numbers :
                operation' = [id |-> operation.id + 1, open |-> TRUE, attempt |-> n,
                              final |-> job.status # "succeeded" /\ attempts[n].manifest]
            BY <2>2 DEF RegisterReconcile
        <3>2. /\ operation'.attempt = n
              /\ operation'.final <=> job.status # "succeeded" /\ attempts[n].manifest
            BY <3>1
        <3>3. UNCHANGED <<job, attempts>>
            BY <2>2 DEF RegisterReconcile
        <3>4. QED
            BY <3>2, <3>3 DEF NoFinalNeeded
    <2>3. ASSUME NEW r \in Reconcilers, PersistReconcile(r)
          PROVE  UNCHANGED operation \/ ~operation'.open
        BY <2>3 DEF PersistReconcile, RowsTyped, Operation
    <2>4. ASSUME NEW p \in Removers, Remove(p)
          PROVE  UNCHANGED operation
        BY <2>4, RemoveMoves DEF rows
    <2>5. ASSUME NEW w \in Workers,
                 \/ Claim(w) \/ ClaimFails(w) \/ WorkerCrash(w) \/ Guard(w)
                 \/ OperationRaises(w) \/ FailOrCancel(w) \/ ConfirmCleanup(w)
                 \/ Complete(w) \/ BuildStep(w)
          PROVE  UNCHANGED operation
        BY <2>5, OperationMoves
           DEF Claim, ClaimFails, WorkerCrash, Guard, OperationRaises, FailOrCancel,
               ConfirmCleanup, Complete, rows
    <2>6. ASSUME NEW r \in Reconcilers, ResumeReconcile(r) \/ ReconcileStops(r)
          PROVE  UNCHANGED operation
        BY <2>6 DEF ResumeReconcile, ReconcileStops, rows
    <2>7. CASE EnqueueTrainingJob \/ CancelTrainingJob \/ ChangeDataset
                 \/ LoseRequester \/ LeaseLapses
        BY <2>1, <2>7
           DEF EnqueueTrainingJob, CancelTrainingJob, ChangeDataset, LoseRequester,
               LeaseLapses
    <2>8. CASE UNCHANGED vars
        BY <2>1, <2>8 DEF vars
    <2>9. QED
        BY <2>1, <2>2, <2>3, <2>4, <2>5, <2>6, <2>7, <2>8
           DEF Next, Process, BuildStep, Removers
<1>3. QED
    BY <1>1, <1>2 DEF RemovalsAchieve

(***************************************************************************)
(* Manifests and phases.                                                   *)
(***************************************************************************)

\* How the phase of a worker can change: it stays on its side of the record,
\* stops, or begins with an attempt whose row is new.
PhaseKept(w) ==
    \/ wk'[w].phase \in {"idle", "failing"}
    \/ /\ wk'[w].attempt = wk[w].attempt
       /\ wk[w].phase \in Early <=> wk'[w].phase \in Early
       /\ wk[w].phase \in Late <=> wk'[w].phase \in Late

LEMMA PhaseProceeds ==
    ASSUME WorkersTyped, NEW w \in Workers, NEW phase, Proceed(w, phase),
           \/ wk[w].phase \in Early /\ phase \in Early
           \/ wk[w].phase \in Late /\ phase \in Late
    PROVE  \A v \in Workers : PhaseKept(v)
<1>1. wk' = [wk EXCEPT ![w] = [@ EXCEPT !.phase = phase, !.guarded = FALSE]]
    BY DEF Proceed
<1>2. wk[w] \in Worker
    BY DEF WorkersTyped
<1>3. /\ [wk[w] EXCEPT !.phase = phase, !.guarded = FALSE].attempt = wk[w].attempt
      /\ [wk[w] EXCEPT !.phase = phase, !.guarded = FALSE].phase = phase
    BY <1>2 DEF Worker
<1>4. wk'[w].attempt = wk[w].attempt /\ wk'[w].phase = phase
    BY <1>1, <1>3 DEF WorkersTyped
<1>5. \A v \in Workers \ {w} : wk'[v] = wk[v]
    BY <1>1 DEF WorkersTyped
<1>6. QED
    BY <1>4, <1>5 DEF PhaseKept, Early, Late

LEMMA PhaseRaised ==
    ASSUME WorkersTyped, NEW w \in Workers, NEW code, Raise(w, code)
    PROVE  \A v \in Workers : PhaseKept(v)
<1>1. wk' = [wk EXCEPT ![w] = [@ EXCEPT !.phase = "failing", !.guarded = FALSE,
                                        !.code = code]]
    BY DEF Raise
<1>2. wk[w] \in Worker
    BY DEF WorkersTyped
<1>3. [wk[w] EXCEPT !.phase = "failing", !.guarded = FALSE, !.code = code].phase = "failing"
    BY <1>2 DEF Worker
<1>4. wk'[w].phase = "failing" /\ \A v \in Workers \ {w} : wk'[v] = wk[v]
    BY <1>1, <1>3 DEF WorkersTyped
<1>5. QED
    BY <1>4 DEF PhaseKept

LEMMA StepPhases ==
    ASSUME DirInv, [Next]_vars
    PROVE  \/ \A v \in Workers : PhaseKept(v)
           \/ \E w \in Workers : Claim(w) \/ RecordAttemptManifest(w)
<1> USE TypeParts DEF DirInv, RowsInv
<1>1. UNCHANGED wk => \A v \in Workers : PhaseKept(v)
    BY DEF PhaseKept
<1>2. ASSUME NEW w \in Workers,
             \/ wk' = [wk EXCEPT ![w] = IdleWorker]
             \/ wk' = [wk EXCEPT ![w].guarded = TRUE]
             \/ wk' = [wk EXCEPT ![w].guarded = FALSE]
      PROVE  \A v \in Workers : PhaseKept(v)
    BY <1>2 DEF PhaseKept, WorkersTyped, Worker, IdleWorker
<1>3. ASSUME NEW w \in Workers, RecheckFails(w)
      PROVE  \A v \in Workers : PhaseKept(v)
    BY <1>3, PhaseRaised DEF RecheckFails
<1>4. ASSUME NEW w \in Workers,
             \/ Guard(w) \/ OperationRaises(w) \/ FailOrCancel(w) \/ WorkerCrash(w)
             \/ Complete(w)
      PROVE  \A v \in Workers : PhaseKept(v)
    BY <1>2, <1>3, <1>4, PhaseRaised
       DEF Guard, OperationRaises, FailOrCancel, WorkerCrash, Complete
<1>5. ASSUME NEW p \in Removers, Remove(p)
      PROVE  \A v \in Workers : PhaseKept(v)
    <2>1. UNCHANGED wk \/ (p \in Workers /\ wk' = [wk EXCEPT ![p].guarded = FALSE])
        BY <1>5, RemoveMoves DEF SurfaceDone, Unguard, RemovalGoesOn
    <2>2. QED
        BY <1>1, <1>2, <2>1
<1>6. ASSUME NEW w \in Workers,
             \/ ConfirmCleanup(w) \/ LoadEligibleDataset(w) \/ OpenRetainedFinal(w)
             \/ PrepareStage(w)
      PROVE  \A v \in Workers : PhaseKept(v)
    BY <1>6, PhaseProceeds, PhaseRaised
       DEF ConfirmCleanup, LoadEligibleDataset, OpenRetainedFinal, PrepareStage, At, Early
<1>7. ASSUME NEW w \in Workers,
             \/ TransitionStageMarker(w) \/ CheckRename(w) \/ RenameStage(w)
             \/ VerifyPreverifiedFinal(w) \/ MarkAttemptPublished(w)
      PROVE  \A v \in Workers : PhaseKept(v)
    BY <1>3, <1>7, PhaseProceeds, PhaseRaised
       DEF TransitionStageMarker, CheckRename, RenameStage, VerifyPreverifiedFinal,
           MarkAttemptPublished, At, Late
<1>8. ASSUME NEW w \in Workers, ClaimFails(w)
      PROVE  UNCHANGED wk
    BY <1>8 DEF ClaimFails
<1>9. ASSUME NEW r \in Reconcilers,
             RegisterReconcile(r) \/ ResumeReconcile(r) \/ PersistReconcile(r)
               \/ ReconcileStops(r)
      PROVE  UNCHANGED wk
    BY <1>9 DEF RegisterReconcile, ResumeReconcile, PersistReconcile, ReconcileStops
<1>10. CASE EnqueueTrainingJob \/ CancelTrainingJob \/ ChangeDataset \/ LoseRequester
              \/ LeaseLapses
    BY <1>1, <1>10
       DEF EnqueueTrainingJob, CancelTrainingJob, ChangeDataset, LoseRequester, LeaseLapses
<1>11. CASE UNCHANGED vars
    BY <1>1, <1>11 DEF vars
<1>12. QED
    BY <1>1, <1>4, <1>5, <1>6, <1>7, <1>8, <1>9, <1>10, <1>11 DEF Next, Process, Removers

ManifestsKept == \A n \in Numbers : attempts'[n].manifest = attempts[n].manifest

LEMMA ManifestsNext ==
    ASSUME DirInv, [Next]_vars
    PROVE  ManifestsFollowPhases'
<1> USE TypeParts DEF DirInv, RowsInv
<1> SUFFICES ASSUME NEW v \in Workers
             PROVE  /\ wk'[v].phase \in Early => ~attempts'[wk'[v].attempt].manifest
                    /\ wk'[v].phase \in Late => attempts'[wk'[v].attempt].manifest
    BY DEF ManifestsFollowPhases
<1> DEFINE a == wk[v].attempt
<1>1. CASE ManifestsKept /\ PhaseKept(v)
    <2>1. CASE wk'[v].phase \in {"idle", "failing"}
        BY <2>1 DEF Early, Late
    <2>2. CASE wk[v].phase \in Early \union Late
        <3>1. a \in Numbers
            BY <2>2 DEF WorkersTyped, Early, Late
        <3>2. attempts'[a].manifest = attempts[a].manifest
            BY <1>1, <3>1 DEF ManifestsKept
        <3>3. QED
            BY <1>1, <2>1, <3>2 DEF PhaseKept, ManifestsFollowPhases
    <2>3. QED
        BY <1>1, <2>1, <2>2 DEF PhaseKept
<1>2. CASE ManifestsKept /\ wk'[v] = wk[v]
    BY <1>1, <1>2 DEF PhaseKept
<1>3. ASSUME NEW w \in Workers, Claim(w)
      PROVE  /\ wk'[v].phase \in Early => ~attempts'[wk'[v].attempt].manifest
             /\ wk'[v].phase \in Late => attempts'[wk'[v].attempt].manifest
    <2>1. FlagsKept
        BY <1>3, ClaimKeepsFlags
    <2>2. CASE v # w
        <3>1. wk'[v] = wk[v]
            BY <1>3, <2>2 DEF Claim, WorkersTyped
        <3>2. QED
            BY <1>2, <2>1, <3>1 DEF ManifestsKept, FlagsKept
    <2>3. CASE v = w
        <3>1. PICK phase \in {"cleanup", "load"} :
                wk' = [wk EXCEPT ![w] = [IdleWorker EXCEPT !.phase = phase,
                                                          !.attempt = NextNumber]]
            BY <1>3 DEF Claim
        <3>2. wk'[v].phase = phase /\ wk'[v].attempt = NextNumber
            BY <2>3, <3>1 DEF WorkersTyped, IdleWorker
        <3>3. attempts[NextNumber] = NoAttempt /\ NextNumber \in Numbers
            <4>1. /\ Claimable /\ NextNumber \in Numbers
                  /\ attempts' = [Reclaimed EXCEPT ![NextNumber].status = "running"]
                BY <1>3 DEF Claim
            <4>2. QED
                BY <4>1, NewAttempt DEF AttemptStatus, ActiveAttempt
        <3>4. ~attempts'[NextNumber].manifest
            BY <2>1, <3>3 DEF FlagsKept, NoAttempt
        <3>5. QED
            BY <3>2, <3>4 DEF Late
    <2>4. QED
        BY <2>2, <2>3
<1>4. ASSUME NEW w \in Workers, RecordAttemptManifest(w)
      PROVE  /\ wk'[v].phase \in Early => ~attempts'[wk'[v].attempt].manifest
             /\ wk'[v].phase \in Late => attempts'[wk'[v].attempt].manifest
    <2>1. wk[w].phase = "record" /\ wk[w].attempt \in Numbers
        BY <1>4 DEF RecordAttemptManifest, At, WorkersTyped
    <2>2. CASE UNCHANGED attempts /\ Raise(w, "claim_lost")
        BY <1>1, <2>2, PhaseRaised DEF ManifestsKept
    <2>3. CASE /\ attempts' = [attempts EXCEPT ![wk[w].attempt] =
                                [@ EXCEPT !.status = "staged", !.manifest = TRUE]]
               /\ Proceed(w, "close")
        <3>1. /\ attempts'[wk[w].attempt].manifest
              /\ \A n \in Numbers \ {wk[w].attempt} : attempts'[n] = attempts[n]
            BY <2>1, <2>3 DEF RowsTyped, AttemptRow
        <3>2. CASE v = w
            <4>1. wk' = [wk EXCEPT ![w] = [@ EXCEPT !.phase = "close", !.guarded = FALSE]]
                BY <2>3 DEF Proceed
            <4>2. wk[w] \in Worker
                BY DEF WorkersTyped
            <4>3. /\ [wk[w] EXCEPT !.phase = "close", !.guarded = FALSE].phase = "close"
                  /\ [wk[w] EXCEPT !.phase = "close", !.guarded = FALSE].attempt
                        = wk[w].attempt
                BY <4>2 DEF Worker
            <4>4. wk'[w].phase = "close" /\ wk'[w].attempt = wk[w].attempt
                BY <4>1, <4>3 DEF WorkersTyped
            <4>5. QED
                BY <3>1, <3>2, <4>4 DEF Early
        <3>3. CASE v # w
            <4>1. wk'[v] = wk[v]
                BY <2>3, <3>3 DEF Proceed, WorkersTyped
            <4>2. CASE wk[v].phase \in Early \union Late
                <5>1. wk[v].phase # "idle"
                    BY <4>2 DEF Early, Late
                <5>2. wk[v].attempt \in Numbers /\ wk[v].attempt # wk[w].attempt
                    BY <2>1, <3>3, <5>1 DEF WorkersTyped, DistinctClaims
                <5>3. QED
                    BY <3>1, <4>1, <5>2 DEF ManifestsFollowPhases
            <4>3. QED
                BY <4>1, <4>2
        <3>4. QED
            BY <3>2, <3>3
    <2>4. QED
        BY <1>4, <2>2, <2>3 DEF RecordAttemptManifest
<1>5. ASSUME \/ \E w \in Workers : ConfirmCleanup(w)
             \/ \E r \in Reconcilers : PersistReconcile(r)
      PROVE  ManifestsKept
    <2>1. ASSUME NEW p \in Removers, rm[p].step = "done",
                 attempts' = [attempts EXCEPT ![rm[p].attempt].cleaned = TRUE]
          PROVE  ManifestsKept
        BY <2>1 DEF RowsTyped, AttemptRow, ManifestsKept
    <2>2. UNCHANGED attempts => ManifestsKept
        BY DEF ManifestsKept
    <2>3. QED
        BY <1>5, <2>1, <2>2 DEF ConfirmCleanup, PersistReconcile, Removers
<1>6. FlagsKept => ManifestsKept
    BY DEF FlagsKept, ManifestsKept
<1>7. QED
    BY <1>1, <1>3, <1>4, <1>5, <1>6, StepPhases, StepFlags

LEMMA NextDir == DirInv /\ [Next]_vars => DirInv'
<1> SUFFICES ASSUME DirInv, [Next]_vars PROVE DirInv'
    OBVIOUS
<1>1. RowsInv'
    BY NextRows DEF DirInv
<1>2. Directories' /\ ManifestsFollowPhases' /\ SuccessStands'
    BY DirectoriesNext, ManifestsNext, SuccessNext
<1>3. RemovalsAchieve' /\ CleanedIsDead'
    BY RemovalsNext, CleanedNext
<1>4. QED
    BY <1>1, <1>2, <1>3 DEF DirInv

\* A crash, a stale rename or a late removal never leaves at the final path what
\* no attempt row recorded a manifest for.
THEOREM FinalIsRecordedHolds == Spec => []FinalIsRecorded
<1>1. DirInv => FinalIsRecorded
    BY DEF DirInv, Directories, FinalIsRecorded
<1>2. QED
    BY <1>1, InitDir, NextDir, PTL DEF Spec

\* The bundle of an attempt whose cleanup was confirmed never stands at the final
\* path, although its worker may have been past its last check.
THEOREM CleanedNeverPublishedHolds == Spec => []CleanedNeverPublished
<1>1. ASSUME DirInv, NEW n \in Numbers, attempts[n].cleaned
      PROVE  ~BundleStands(n)
    <2>1. SUFFICES ASSUME BundleStands(n) PROVE FALSE
        OBVIOUS
    <2>2. attempts[n].manifest
        BY <1>1, <2>1 DEF DirInv, Directories, BundleStands, InFinal
    <2>3. dir[n].content \in {"none", "broken"}
        BY <1>1, <2>2 DEF DirInv, CleanedIsDead, Dead
    <2>4. QED
        BY <2>1, <2>3 DEF BundleStands
<1>2. DirInv => CleanedNeverPublished
    BY <1>1 DEF CleanedNeverPublished
<1>3. QED
    BY <1>2, InitDir, NextDir, PTL DEF Spec

\* A removal that was begun when the final path was free, or another attempt's,
\* never touches a whole final of an attempt that was not given up.
THEOREM OnlyGivenUpRemovedHolds == Spec => OnlyGivenUpRemoved
<1>1. DirInv /\ [Next]_vars =>
        [\A n \in Numbers : BundleStands(n) /\ dir'[n] # dir[n]
           => attempts[n].status \in GivenUp]_vars
    BY StandingStays
<1>2. QED
    BY <1>1, InitDir, NextDir, PTL DEF Spec, OnlyGivenUpRemoved

(***************************************************************************)
(* The refinement of BundlePublication.                                    *)
(***************************************************************************)

\* The attempt whose bundle can be relied on.
Reliable ==
    IF job.status # "succeeded" THEN 0
    ELSE IF BundleStands(job.attempt) THEN job.attempt ELSE 0

LEMMA PromiseInit == Init => Promise!Init
BY DEF Init, Promise!Init

\* A job that succeeded keeps its bundle; before, there is none to rely on.
LEMMA ReliableStays ==
    ASSUME DirInv, DirInv', [Next]_vars,
           job.status # "succeeded" => job'.status # "succeeded"
    PROVE  UNCHANGED Reliable
<1>1. CASE job.status # "succeeded"
    BY <1>1 DEF Reliable
<1>2. CASE job.status = "succeeded"
    <2>1. job'.status = "succeeded" /\ job'.attempt = job.attempt
        BY <1>2, SuccessStays DEF DirInv
    <2>2. BundleStands(job.attempt)
        BY <1>2 DEF DirInv, SuccessStands
    <2>3. BundleStands(job.attempt)'
        BY <2>1 DEF DirInv, SuccessStands
    <2>4. Reliable = job.attempt
        BY <1>2, <2>2 DEF Reliable
    <2>5. Reliable' = job'.attempt
        BY <2>1, <2>3 DEF Reliable
    <2>6. QED
        BY <2>1, <2>4, <2>5
<1>3. QED
    BY <1>1, <1>2

LEMMA PromiseNext ==
    ASSUME DirInv, DirInv', [Next]_vars
    PROVE  \/ Promise!Next
           \/ UNCHANGED <<job.status, job.attempt, Reliable>>
<1> USE TypeParts DEF DirInv, RowsInv
<1>1. CASE job.status # "succeeded" /\ job'.status = "succeeded"
    <2>1. PICK w \in Workers :
            Complete(w) /\ MayComplete(w) /\ job.manifest = wk[w].attempt
              /\ BundleStands(wk[w].attempt)
        BY <1>1, SuccessIsComplete
    <2>2. /\ job.status = "running" /\ wk[w].attempt = job.attempt
          /\ job' = [job EXCEPT !.status = "succeeded", !.live = FALSE]
        BY <2>1 DEF Complete, MayComplete, LiveClaim, Owned
    <2>3. job'.attempt = job.attempt
        BY <2>2 DEF RowsTyped, JobRow
    <2>4. BundleStands(job.attempt)'
        BY <1>1 DEF SuccessStands
    <2>5. Reliable' = job.attempt
        BY <1>1, <2>3, <2>4 DEF Reliable
    <2>6. Promise!Publish
        BY <1>1, <2>2, <2>3, <2>5 DEF Promise!Publish, Reliable
    <2>7. QED
        BY <2>6 DEF Promise!Next
<1>2. CASE job.status # "succeeded" => job'.status # "succeeded"
    <2>1. UNCHANGED Reliable
        BY <1>2, ReliableStays
    <2>2. CASE UNCHANGED <<job.status, job.attempt>>
        BY <2>1, <2>2
    <2>3. CASE Unclaimed
        <3>1. Promise!Enqueue \/ Promise!GiveUp
            BY <2>1, <2>3 DEF Unclaimed, Promise!Enqueue, Promise!GiveUp, Reliable
        <3>2. QED
            BY <3>1 DEF Promise!Next
    <2>4. ASSUME NEW status \in {"failed", "cancelled"}, Ends(status)
          PROVE  Promise!GiveUp
        BY <2>1, <2>4 DEF Ends, Promise!GiveUp, Reliable
    <2>5. ASSUME NEW w \in Workers, Claim(w)
          PROVE  Promise!Start
        <3>1. /\ job.status \in {"queued", "running"}
              /\ job'.status = "running" /\ job'.attempt = NextNumber
            BY <2>5 DEF Claim, Claimable, RowsTyped, JobRow
        <3>2. QED
            BY <2>1, <3>1 DEF NextNumber, Promise!Start, Reliable
    <2>6. ASSUME NEW w \in Workers, ClaimFails(w)
          PROVE  Promise!GiveUp
        <3>1. /\ job.status \in {"queued", "running"}
              /\ job'.status = "failed" /\ job'.attempt = NextNumber
            BY <2>6 DEF ClaimFails, Claimable, RowsTyped, JobRow
        <3>2. QED
            BY <2>1, <3>1 DEF NextNumber, Promise!GiveUp, Reliable
    <2>7. ASSUME Ends("succeeded")
          PROVE  FALSE
        BY <1>2, <2>7 DEF Ends
    <2>8. CASE OtherStep
        BY <2>2, <2>3, <2>4, <2>7, <2>8 DEF OtherStep, QuietRows, Promise!Next
    <2>9. QED
        BY <2>5, <2>6, <2>8, StepKinds DEF Promise!Next
<1>3. QED
    BY <1>1, <1>2

\* The queue implements what it promises to review, execution and registry: a
\* bundle can be relied on from the step its job succeeds in, and for good.
THEOREM ImplementsPromiseHolds == Spec => ImplementsPromise
<1>1. DirInv /\ DirInv' /\ [Next]_vars => [Promise!Next]_(Promise!promise)
    BY PromiseNext DEF Promise!promise, Reliable
<1>2. QED
    BY <1>1, InitDir, NextDir, PromiseInit, PTL DEF Spec, ImplementsPromise, Promise!Spec
=============================================================================
