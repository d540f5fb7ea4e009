---------------------- MODULE AdapterGovernance_proofs ----------------------
(***************************************************************************)
(* That what a department answers with, may roll back to, or answers with  *)
(* right now is never taken away under it, and that the pointer moves as   *)
(* DeploymentPromise says: for any adapters, suites, evaluations, answers  *)
(* and workers, whichever of them crash or stall.                          *)
(***************************************************************************)
EXTENDS AdapterGovernance, TLAPS

\* The rows of a purge agree with those of its adapter: an adapter is
\* validated as long as it has the version every authority names; a purge at
\* work has it pending, and takes no bytes of any other.
PurgesAgree == \A a \in Adapters :
    /\ adapter[a].status = "validated" <=> adapter[a].version = ValidatedVersion
    /\ adapter[a].version >= ValidatedVersion
    /\ ActivePurge(a) => adapter[a].status = "purge_pending"
    /\ ~bytes[a] => adapter[a].status # "validated"

\* A retention names an evaluation, and an active operation one exactly if it
\* has an adapter for target.
ReviewsNamed ==
    /\ \A a \in Adapters : retention[a].active => retention[a].review \in Evaluations
    /\ ActiveOperation => (op.target = Base <=> op.review = NoReview)

\* The inductive invariant.
GovernanceInv ==
    /\ TypeOK
    /\ PurgesAgree
    /\ ReviewsNamed
    /\ BytesInUseStay
    /\ ReviewsInUseStay
    /\ ActiveOperationFits

(***************************************************************************)
(* Frames: which variables a part of the invariant is about.               *)
(***************************************************************************)

LEMMA PurgesFrame ==
    ASSUME PurgesAgree, UNCHANGED <<adapter, purge, bytes>>
    PROVE  PurgesAgree'
BY DEF PurgesAgree, ActivePurge

LEMMA BytesFrame ==
    ASSUME BytesInUseStay, UNCHANGED <<adapter, bytes, deployment, retention, answer>>
    PROVE  BytesInUseStay'
BY DEF BytesInUseStay, Deployed, Retained, Answering

LEMMA ReviewsFrame ==
    ASSUME ReviewsInUseStay, UNCHANGED <<review, eval, deployment, retention>>
    PROVE  ReviewsInUseStay'
BY DEF ReviewsInUseStay, Deployed, Retained

LEMMA OperationFrame ==
    ASSUME ReviewsNamed, ActiveOperationFits, UNCHANGED <<op, deployment, retention>>
    PROVE  ReviewsNamed' /\ ActiveOperationFits'
BY DEF ReviewsNamed, ActiveOperationFits, ActiveOperation, Retained

LEMMA TypeFrame ==
    ASSUME TypeOK, UNCHANGED <<deployment, retention, op, wk, answer>>,
           adapter' \in [Adapters -> AdapterRow],
           purge' \in [Adapters -> PurgeStatus],
           bytes' \in [Adapters -> BOOLEAN],
           suite' \in [Suites -> {"active", "archived"}],
           eval' \in [Evaluations -> EvaluationStatus],
           review' \in [Evaluations -> ReviewStatus]
    PROVE  TypeOK'
BY DEF TypeOK

\* What an operation was asked for stays while it is active.
Continues ==
    op'.status \in ActiveStatus =>
        /\ ActiveOperation
        /\ op'.type = op.type /\ op'.target = op.target /\ op'.review = op.review
        /\ op'.retention = op.retention
        /\ op'.expected = op.expected /\ op'.current = op.current

LEMMA ContinuesFrame ==
    ASSUME GovernanceInv, Continues, UNCHANGED <<authority, deployment, retention, answer>>,
           op' \in OperationRow, op'.owner # NoWorker => op'.status = "running",
           wk' \in [Workers -> Worker]
    PROVE  GovernanceInv'
<1>1. TypeOK'
    BY DEF GovernanceInv, TypeOK, authority
<1>2. PurgesAgree' /\ BytesInUseStay' /\ ReviewsInUseStay'
    BY PurgesFrame, BytesFrame, ReviewsFrame DEF GovernanceInv, authority
<1>3. ReviewsNamed' /\ ActiveOperationFits'
    BY DEF GovernanceInv, ReviewsNamed, ActiveOperationFits, ActiveOperation, Continues, Retained
<1>4. QED
    BY <1>1, <1>2, <1>3 DEF GovernanceInv

LEMMA InitGovernance == Init => GovernanceInv
<1> SUFFICES ASSUME Init PROVE GovernanceInv
    OBVIOUS
<1>1. TypeOK
    BY GovernanceAssumption
    DEF Init, TypeOK, AdapterRow, PurgeStatus, ActivePurgeStatus, EvaluationStatus, ReviewStatus, Deployment,
        Targets, Retention, OperationRow, NoOperation, OperationStatus, OperationType, Worker, IdleWorker,
        ValidatedVersion
<1>2. PurgesAgree
    BY DEF Init, PurgesAgree, ActivePurge, ActivePurgeStatus, ValidatedVersion
<1>3. ~ActiveOperation
    BY DEF Init, ActiveOperation, NoOperation, ActiveStatus
<1>4. Deployed = {} /\ Retained = {} /\ Answering = {}
    BY DEF Init, Deployed, Retained, Answering
<1>5. BytesInUseStay /\ ReviewsInUseStay
    BY <1>4 DEF Init, BytesInUseStay, ReviewsInUseStay
<1>6. ReviewsNamed /\ ActiveOperationFits
    BY <1>3 DEF Init, ReviewsNamed, ActiveOperationFits
<1>7. QED
    BY <1>1, <1>2, <1>5, <1>6 DEF GovernanceInv

(***************************************************************************)
(* Suites, evaluations and answers.                                        *)
(***************************************************************************)

LEMMA SuiteStep ==
    ASSUME GovernanceInv, NEW s \in Suites, ArchiveSuite(s)
    PROVE  GovernanceInv'
<1>1. TypeOK'
    BY TypeFrame DEF GovernanceInv, TypeOK, ArchiveSuite
<1>2. QED
    BY <1>1, PurgesFrame, BytesFrame, ReviewsFrame, OperationFrame DEF GovernanceInv, ArchiveSuite

LEMMA EvaluationStep ==
    ASSUME GovernanceInv, NEW e \in Evaluations,
           EnqueueEvaluation(e) \/ FinishEvaluation(e) \/ StopEvaluation(e)
    PROVE  GovernanceInv'
<1>1. /\ UNCHANGED <<adapter, purge, bytes, suite, review, deployment, retention, op, wk, answer>>
      /\ eval' \in [Evaluations -> EvaluationStatus]
      /\ eval[e] # "passed"
      /\ \A f \in Evaluations \ {e} : eval'[f] = eval[f]
    BY DEF GovernanceInv, TypeOK, EvaluationStatus, EnqueueEvaluation, FinishEvaluation, StopEvaluation
<1>2. TypeOK'
    BY <1>1, TypeFrame DEF GovernanceInv, TypeOK
<1>3. ReviewsInUseStay'
    BY <1>1 DEF GovernanceInv, ReviewsInUseStay, Deployed, Retained
<1>4. QED
    BY <1>1, <1>2, <1>3, PurgesFrame, BytesFrame, OperationFrame DEF GovernanceInv

LEMMA AnswerStep ==
    ASSUME GovernanceInv, NEW x \in Answers, StartAnswer(x) \/ EndAnswer(x)
    PROVE  GovernanceInv'
<1>1. /\ UNCHANGED <<authority, deployment, retention, op, wk>>
      /\ answer' \in [Answers -> Targets]
      /\ \A y \in Answers : answer'[y] \in {answer[y], deployment.target, Base}
    BY DEF GovernanceInv, TypeOK, Deployment, Targets, StartAnswer, EndAnswer
<1>2. TypeOK'
    BY <1>1 DEF GovernanceInv, TypeOK, authority
<1>3. BytesInUseStay'
    BY <1>1 DEF GovernanceInv, authority, BytesInUseStay, Deployed, Retained, Answering
<1>4. QED
    BY <1>1, <1>2, <1>3, PurgesFrame, ReviewsFrame, OperationFrame DEF GovernanceInv, authority

(***************************************************************************)
(* The purge of an adapter.                                                *)
(***************************************************************************)

\* The fences of a purge that is registered keep a validated adapter out of
\* every use.
LEMMA FencesKeepUses ==
    ASSUME GovernanceInv, NEW a \in Adapters, GovernanceFences(a, adapter[a].version)
    PROVE  a \notin Deployed \union Retained \union Answering
<1>1. CASE adapter[a].status = "validated"
    <2>1. adapter[a].version = ValidatedVersion
        BY <1>1 DEF GovernanceInv, PurgesAgree
    <2>2. QED
        BY <2>1 DEF GovernanceFences, Unchanged, Deployed, Retained, Answering
<1>2. CASE adapter[a].status # "validated"
    BY <1>2 DEF GovernanceInv, BytesInUseStay
<1>3. QED
    BY <1>1, <1>2

\* The adapter of a purge at work is in no use.
LEMMA ActivePurgeUnused ==
    ASSUME GovernanceInv, NEW a \in Adapters, ActivePurge(a)
    PROVE  a \notin Deployed \union Retained \union Answering
BY DEF GovernanceInv, PurgesAgree, BytesInUseStay

\* A step of the purge of an adapter in no use leaves every use alone.
LEMMA PurgeFrame ==
    ASSUME GovernanceInv, NEW a \in Adapters,
           a \notin Deployed \union Retained \union Answering,
           UNCHANGED <<suite, eval, review, deployment, retention, op, wk, answer>>,
           adapter' \in [Adapters -> AdapterRow],
           purge' \in [Adapters -> PurgeStatus],
           bytes' \in [Adapters -> BOOLEAN],
           \A b \in Adapters \ {a} :
               adapter'[b] = adapter[b] /\ purge'[b] = purge[b] /\ bytes'[b] = bytes[b],
           adapter'[a].status # "validated" /\ adapter'[a].version > ValidatedVersion,
           purge'[a] \in ActivePurgeStatus => adapter'[a].status = "purge_pending"
    PROVE  GovernanceInv'
<1>1. TypeOK'
    BY TypeFrame DEF GovernanceInv, TypeOK
<1>2. PurgesAgree'
    BY DEF GovernanceInv, TypeOK, AdapterRow, ValidatedVersion, PurgesAgree, ActivePurge
<1>3. BytesInUseStay'
    <2>1. UNCHANGED <<Deployed, Retained, Answering>>
        BY DEF Deployed, Retained, Answering
    <2>2. \A b \in Deployed \union Retained \union Answering : b \in Adapters
        BY DEF GovernanceInv, TypeOK, Deployment, Targets, Deployed, Retained, Answering
    <2>3. QED
        BY <2>1, <2>2 DEF GovernanceInv, BytesInUseStay
<1>4. QED
    BY <1>1, <1>2, <1>3, ReviewsFrame, OperationFrame DEF GovernanceInv

LEMMA PurgeStep ==
    ASSUME GovernanceInv, NEW a \in Adapters,
           \/ RegisterPurge(a) \/ AuthorizeMove(a) \/ MoveRegistryFinal(a)
           \/ CompletePurge(a) \/ BlockPurge(a)
    PROVE  GovernanceInv'
<1> USE DEF GovernanceInv, TypeOK
<1>1. CASE RegisterPurge(a)
    <2>1. a \notin Deployed \union Retained \union Answering
        BY <1>1, FencesKeepUses DEF RegisterPurge
    <2>2. /\ adapter' \in [Adapters -> AdapterRow]
          /\ adapter'[a].status = "purge_pending" /\ adapter'[a].version > ValidatedVersion
        BY <1>1 DEF RegisterPurge, AdapterRow, PurgesAgree, ValidatedVersion
    <2>3. purge' \in [Adapters -> PurgeStatus]
        BY <1>1 DEF RegisterPurge, PurgeStatus, ActivePurgeStatus
    <2>4. QED
        BY <1>1, <2>1, <2>2, <2>3, PurgeFrame DEF RegisterPurge
<1>2. CASE AuthorizeMove(a) \/ MoveRegistryFinal(a) \/ CompletePurge(a) \/ BlockPurge(a)
    <2>1. ActivePurge(a)
        BY <1>2 DEF AuthorizeMove, MoveRegistryFinal, CompletePurge, BlockPurge, ActivePurge, ActivePurgeStatus
    <2>2. a \notin Deployed \union Retained \union Answering
        BY <2>1, ActivePurgeUnused
    <2>3. adapter[a].status = "purge_pending" /\ adapter[a].version > ValidatedVersion
        BY <2>1 DEF PurgesAgree, AdapterRow, ValidatedVersion
    <2>4. /\ adapter' \in [Adapters -> AdapterRow]
          /\ \A b \in Adapters \ {a} : adapter'[b] = adapter[b]
          /\ adapter'[a].status \in {"purge_pending", "purged"}
          /\ adapter'[a].version > ValidatedVersion
        BY <1>2, <2>3
        DEF AuthorizeMove, MoveRegistryFinal, CompletePurge, BlockPurge, AdapterRow, ValidatedVersion
    <2>5. /\ purge' \in [Adapters -> PurgeStatus]
          /\ \A b \in Adapters \ {a} : purge'[b] = purge[b]
          /\ purge'[a] \in ActivePurgeStatus => adapter'[a] = adapter[a]
        BY <1>2
        DEF AuthorizeMove, MoveRegistryFinal, CompletePurge, BlockPurge, PurgeStatus, ActivePurgeStatus
    <2>6. bytes' \in [Adapters -> BOOLEAN] /\ \A b \in Adapters \ {a} : bytes'[b] = bytes[b]
        BY <1>2 DEF AuthorizeMove, MoveRegistryFinal, CompletePurge, BlockPurge
    <2>7. UNCHANGED <<suite, eval, review, deployment, retention, op, wk, answer>>
        BY <1>2 DEF AuthorizeMove, MoveRegistryFinal, CompletePurge, BlockPurge
    <2>8. QED
        BY <2>2, <2>3, <2>4, <2>5, <2>6, <2>7, PurgeFrame
<1>3. QED
    BY <1>1, <1>2

(***************************************************************************)
(* Reviews.                                                                *)
(***************************************************************************)

\* A step of reviews keeps the approved ones that are in use.
LEMMA ReviewFrame ==
    ASSUME GovernanceInv, NEW e \in Evaluations, NEW status \in ReviewStatus,
           review' = [review EXCEPT ![e] = status],
           UNCHANGED <<adapter, purge, bytes, suite, eval,
                       deployment, retention, op, wk, answer>>,
           status = "approved" => eval[e] = "passed",
           review[e] = "approved" => AdapterOf[e] \notin Deployed \union Retained
    PROVE  GovernanceInv'
<1>1. TypeOK'
    BY TypeFrame DEF GovernanceInv, TypeOK
<1>2. ReviewsInUseStay'
    <2>1. \A f \in Evaluations : review'[f] = IF f = e THEN status ELSE review[f]
        BY DEF GovernanceInv, TypeOK
    <2>2. \A a \in Deployed : AdapterOf[deployment.review] = a /\ deployment.review \in Evaluations
        BY DEF GovernanceInv, TypeOK, Deployment, Deployed, ReviewsInUseStay
    <2>3. \A a \in Retained : AdapterOf[retention[a].review] = a /\ retention[a].review \in Evaluations
        BY DEF GovernanceInv, ReviewsNamed, Retained, ReviewsInUseStay
    <2>4. \A f \in Evaluations :
              review[f] = "approved" /\ AdapterOf[f] \in Deployed \union Retained =>
                  review'[f] = "approved"
        BY <2>1
    <2>5. \A f \in Evaluations : review'[f] = "approved" => eval'[f] = "passed"
        BY <2>1 DEF GovernanceInv, ReviewsInUseStay
    <2>6. UNCHANGED <<Deployed, Retained>>
        BY DEF Deployed, Retained
    <2>7. QED
        BY <2>2, <2>3, <2>4, <2>5, <2>6 DEF GovernanceInv, ReviewsInUseStay
<1>3. QED
    BY <1>1, <1>2, PurgesFrame, BytesFrame, OperationFrame DEF GovernanceInv

LEMMA ReviewStep ==
    ASSUME GovernanceInv, NEW e \in Evaluations,
           StartReview(e) \/ ApproveReview(e) \/ RejectReview(e) \/ ArchiveReview(e)
    PROVE  GovernanceInv'
<1>1. CASE StartReview(e)
    BY <1>1, ReviewFrame DEF StartReview, ReviewStatus
<1>2. CASE ApproveReview(e)
    BY <1>2, ReviewFrame DEF ApproveReview, Approvable, ReviewStatus
<1>3. CASE RejectReview(e)
    BY <1>3, ReviewFrame DEF RejectReview, ReviewStatus
<1>4. CASE ArchiveReview(e)
    <2>1. review[e] = "approved" => AdapterOf[e] \notin Deployed \union Retained
        BY <1>4 DEF ArchiveReview, KeptByDeployment, Deployed, Retained
    <2>2. QED
        BY <1>4, <2>1, ReviewFrame DEF ArchiveReview, ReviewStatus
<1>5. QED
    BY <1>1, <1>2, <1>3, <1>4

(***************************************************************************)
(* The operation.                                                          *)
(***************************************************************************)

LEMMA EnqueueFrame ==
    ASSUME GovernanceInv, NEW type \in OperationType, NEW target \in Targets,
           NEW e \in Evaluations \union {NoReview}, NEW number \in Nat,
           Enqueue(type, target, e, number),
           target # deployment.target,
           target = Base <=> e = NoReview,
           type = "rollback_adapter" =>
               /\ target \in Retained
               /\ retention[target].number = number
               /\ retention[target].review = e
    PROVE  GovernanceInv'
<1>1. /\ UNCHANGED <<authority, deployment, retention, wk, answer>>
      /\ op'.type = type /\ op'.target = target /\ op'.review = e
      /\ op'.retention = number
      /\ op'.expected = deployment.version /\ op'.current = deployment.target
    BY DEF Enqueue, NoOperation
<1>2. op' \in OperationRow /\ op'.owner = NoWorker
    BY DEF GovernanceInv, TypeOK, Deployment, Enqueue, NoOperation, OperationRow,
           OperationStatus, ActiveStatus
<1>3. TypeOK'
    BY <1>1, <1>2 DEF GovernanceInv, TypeOK, authority
<1>4. PurgesAgree' /\ BytesInUseStay' /\ ReviewsInUseStay'
    BY <1>1, PurgesFrame, BytesFrame, ReviewsFrame DEF GovernanceInv, authority
<1>5. ReviewsNamed' /\ ActiveOperationFits'
    BY <1>1 DEF GovernanceInv, ReviewsNamed, ActiveOperationFits, Retained
<1>6. QED
    BY <1>3, <1>4, <1>5 DEF GovernanceInv

LEMMA EnqueueStep ==
    ASSUME GovernanceInv,
           \/ EnqueueRollbackToBase
           \/ \E a \in Adapters :
                 \/ EnqueueRollbackToAdapter(a)
                 \/ \E e \in Evaluations : EnqueuePromotion(a, e)
    PROVE  GovernanceInv'
<1> USE GovernanceAssumption DEF OperationType, Targets
<1>1. CASE EnqueueRollbackToBase
    BY <1>1, EnqueueFrame DEF EnqueueRollbackToBase
<1>2. ASSUME NEW a \in Adapters, EnqueueRollbackToAdapter(a)
      PROVE  GovernanceInv'
    <2>1. retention[a].review \in Evaluations /\ retention[a].number \in Nat
        BY <1>2 DEF GovernanceInv, TypeOK, Retention, ReviewsNamed, EnqueueRollbackToAdapter
    <2>2. QED
        BY <1>2, <2>1, EnqueueFrame DEF EnqueueRollbackToAdapter, Retained
<1>3. ASSUME NEW a \in Adapters, NEW e \in Evaluations, EnqueuePromotion(a, e)
      PROVE  GovernanceInv'
    BY <1>3, EnqueueFrame DEF EnqueuePromotion
<1>4. QED
    BY <1>1, <1>2, <1>3

LEMMA EndedTyped ==
    ASSUME NEW status \in OperationStatus
    PROVE  /\ Ended(status) \in OperationRow
           /\ Ended(status).status = status
           /\ Ended(status).owner = NoWorker
BY DEF Ended, NoOperation, OperationRow, OperationType, Targets

LEMMA RowStep ==
    ASSUME GovernanceInv, CancelOperation \/ LoseRequester \/ Lapse
    PROVE  GovernanceInv'
<1> USE DEF GovernanceInv, TypeOK
<1>1. CASE CancelOperation
    <2>1. CASE op.status = "queued"
        <3>1. op' = Ended("cancelled")
            BY <1>1, <2>1 DEF CancelOperation
        <3>2. Continues /\ op' \in OperationRow /\ op'.owner = NoWorker
            BY <3>1, EndedTyped DEF Continues, OperationStatus, ActiveStatus
        <3>3. QED
            BY <1>1, <3>2, ContinuesFrame DEF CancelOperation
    <2>2. CASE op.status # "queued"
        <3>1. Continues /\ op' \in OperationRow /\ op'.owner = op.owner /\ op'.status = op.status
            BY <1>1, <2>2 DEF CancelOperation, Continues, ActiveOperation, OperationRow
        <3>2. QED
            BY <1>1, <3>1, ContinuesFrame DEF CancelOperation
    <2>3. QED
        BY <2>1, <2>2
<1>2. CASE LoseRequester \/ Lapse
    <2>1. Continues /\ op' \in OperationRow /\ op'.owner = op.owner /\ op'.status = op.status
        BY ZenonT(40), <1>2 DEF LoseRequester, Lapse, Continues, ActiveOperation, OperationRow
    <2>2. QED
        BY <1>2, <2>1, ContinuesFrame DEF LoseRequester, Lapse
<1>3. QED
    BY <1>1, <1>2

(***************************************************************************)
(* The worker before its final transaction, and after a refusal.           *)
(***************************************************************************)

LEMMA WorkerPhase ==
    ASSUME TypeOK, NEW w \in Workers,
           NEW phase \in {"idle", "claimed", "verifying", "committing", "failing"},
           NEW code \in {"none"} \union ErrorCodes
    PROVE  /\ To(w, phase) => wk' \in [Workers -> Worker]
           /\ (phase = "failing" /\ Refuse(w, code)) => wk' \in [Workers -> Worker]
           /\ [wk EXCEPT ![w] = [phase |-> phase, code |-> code]] \in [Workers -> Worker]
BY SMTT(30) DEF TypeOK, Worker, To, Refuse

LEMMA RefusalTyped ==
    ASSUME NEW w \in Workers
    PROVE  ClaimFailure(w) \in ErrorCodes /\ FinalRefusal(w) \in {"none"} \union ErrorCodes
<1>1. ClaimFailure(w) \in ErrorCodes
    BY DEF ClaimFailure, ErrorCodes
<1>2. TargetRefusal(w) \in {"none"} \union ErrorCodes
    BY DEF TargetRefusal, ErrorCodes
<1>3. OutgoingRefusal \in {"none"} \union ErrorCodes
    BY DEF OutgoingRefusal, ErrorCodes
<1>4. QED
    BY <1>1, <1>2, <1>3 DEF FinalRefusal, ErrorCodes

LEMMA WorkerOnly ==
    ASSUME GovernanceInv, wk' \in [Workers -> Worker],
           UNCHANGED <<authority, deployment, retention, op, answer>>
    PROVE  GovernanceInv'
BY ContinuesFrame DEF GovernanceInv, TypeOK, Continues, ActiveOperation

LEMMA WorkerQuiet ==
    ASSUME GovernanceInv, NEW w \in Workers,
           \/ CheckClaim(w) \/ VerifyRegistryFinal(w) \/ ShutDown(w)
           \/ RefuseDeployment(w) \/ Crash(w)
    PROVE  GovernanceInv'
<1>1. UNCHANGED <<authority, deployment, retention, op, answer>>
    BY DEF CheckClaim, VerifyRegistryFinal, ShutDown, RefuseDeployment, Crash
<1>2. \/ \E phase \in {"verifying", "committing"} : To(w, phase)
      \/ \E code \in {"none"} \union ErrorCodes : Refuse(w, code)
      \/ wk' = [wk EXCEPT ![w] = IdleWorker]
    BY RefusalTyped
    DEF CheckClaim, VerifyRegistryFinal, ShutDown, RefuseDeployment, Crash, ErrorCodes
<1>3. wk' \in [Workers -> Worker]
    <2> TypeOK
        BY DEF GovernanceInv
    <2>1. ASSUME NEW phase \in {"verifying", "committing"}, To(w, phase)
          PROVE  wk' \in [Workers -> Worker]
        BY <2>1, WorkerPhase DEF ErrorCodes
    <2>2. ASSUME NEW code \in {"none"} \union ErrorCodes, Refuse(w, code)
          PROVE  wk' \in [Workers -> Worker]
        BY <2>2, WorkerPhase
    <2>3. ASSUME wk' = [wk EXCEPT ![w] = IdleWorker]
          PROVE  wk' \in [Workers -> Worker]
        BY <2>3, WorkerPhase DEF IdleWorker
    <2>4. QED
        BY <1>2, <2>1, <2>2, <2>3
<1>4. QED
    BY <1>1, <1>3, WorkerOnly

LEMMA ClaimStep ==
    ASSUME GovernanceInv, NEW w \in Workers, ClaimNextOperation(w)
    PROVE  GovernanceInv'
<1>1. wk' \in [Workers -> Worker]
    BY WorkerPhase DEF GovernanceInv, ClaimNextOperation
<1>2. Continues /\ op' \in OperationRow /\ op'.status = "running"
    BY DEF GovernanceInv, TypeOK, ClaimNextOperation, Claimable, Continues, ActiveOperation,
           ActiveStatus, OperationRow, OperationStatus
<1>3. QED
    BY <1>1, <1>2, ContinuesFrame DEF ClaimNextOperation

LEMMA FailStep ==
    ASSUME GovernanceInv, NEW w \in Workers, FailOwnedOperation(w)
    PROVE  GovernanceInv'
<1>1. wk' \in [Workers -> Worker]
    BY WorkerPhase DEF GovernanceInv, FailOwnedOperation, IdleWorker
<1>2. CASE op' = op
    BY <1>1, <1>2, WorkerOnly DEF FailOwnedOperation
<1>3. CASE op' # op
    <2>1. PICK status \in {"cancelled", "failed"} : op' = Ended(status)
        BY <1>3 DEF FailOwnedOperation
    <2>2. Continues /\ op' \in OperationRow /\ op'.owner = NoWorker
        BY <2>1, EndedTyped DEF Continues, OperationStatus, ActiveStatus
    <2>3. QED
        BY <1>1, <2>2, ContinuesFrame DEF FailOwnedOperation
<1>4. QED
    BY <1>2, <1>3

(***************************************************************************)
(* The final transaction.                                                  *)
(***************************************************************************)

\* What the checks of the final transaction leave of the cases.
LEMMA FinalChecks ==
    ASSUME GovernanceInv, NEW w \in Workers, FinalRefusal(w) = "none"
    PROVE  /\ op.status = "running" /\ ~op.cancel /\ op.authorized
           /\ op.target # Base =>
                 bytes[op.target] /\ ApprovedTarget(op.target, op.review)
           /\ deployment.target # Base =>
                 /\ review[deployment.review] = "approved"
                 /\ retention[deployment.target].active =>
                       retention[deployment.target].review = deployment.review
<1>1. ClaimOwned(w)
    BY DEF FinalRefusal, ClaimFailure
<1>2. TargetRefusal(w) = "none" /\ op.authorized /\ OutgoingRefusal = "none"
      /\ (op.target # Base => bytes[op.target])
    BY <1>1 DEF FinalRefusal
<1>3. op.target # Base => ApprovedTarget(op.target, op.review)
    BY <1>2 DEF TargetRefusal
<1>4. deployment.target # Base =>
          /\ review[deployment.review] = "approved"
          /\ retention[deployment.target].active =>
                retention[deployment.target].review = deployment.review
    BY <1>2 DEF OutgoingRefusal
<1>5. QED
    BY <1>1, <1>2, <1>3, <1>4 DEF ClaimOwned, ClaimMatches

LEMMA UsedUp ==
    ASSUME NEW r \in Retention
    PROVE  LET used == [r EXCEPT !.active = FALSE]
           IN  used \in Retention /\ ~used.active /\ used.review = r.review
BY DEF Retention

\* What becomes of the retentions: the outgoing adapter has one with the
\* review it was deployed under, a rollback uses up its own, and no other
\* appears or changes its review.
LEMMA RetentionsCommitted ==
    ASSUME GovernanceInv, NEW w \in Workers, CommitDeployment(w)
    PROVE  /\ retention' \in [Adapters -> Retention]
           /\ Retained' = IF op.type = "rollback_adapter"
                          THEN (Retained \union Deployed) \ {op.target}
                          ELSE Retained \union Deployed
           /\ \A a \in Adapters \ Deployed : retention'[a].review = retention[a].review
           /\ \A a \in Deployed : retention'[a].review = deployment.review
<1>1. retention' = RetentionsAfter(w)
    BY DEF CommitDeployment
<1>2. deployment.target # op.target
    BY FinalChecks DEF GovernanceInv, ActiveOperationFits, ActiveOperation, ActiveStatus, CommitDeployment
<1>3. deployment.target # Base /\ retention[deployment.target].active =>
          retention[deployment.target].review = deployment.review
    BY FinalChecks DEF CommitDeployment
<1>4. ASSUME NEW a \in Adapters
      PROVE  /\ retention'[a] \in Retention
             /\ retention'[a].active <=>
                   \/ a = deployment.target
                   \/ retention[a].active /\ ~(op.type = "rollback_adapter" /\ a = op.target)
             /\ retention'[a].review =
                   IF a = deployment.target THEN deployment.review ELSE retention[a].review
    <2> retention[a] \in Retention /\ deployment.review \in Evaluations \union {NoReview}
        BY DEF GovernanceInv, TypeOK, Deployment
    <2>1. CASE a = deployment.target /\ ~retention[a].active
        <3>1. retention'[a] = [active |-> TRUE, review |-> deployment.review,
                               number |-> retention[a].number + 1]
            BY <1>1, <1>2, <2>1 DEF RetentionsAfter
        <3>2. QED
            BY <2>1, <3>1 DEF Retention
    <2>2. CASE a # deployment.target /\ op.type = "rollback_adapter" /\ a = op.target
        <3>1. retention'[a] = [retention[a] EXCEPT !.active = FALSE]
            BY <1>1, <2>2 DEF RetentionsAfter
        <3>2. QED
            BY <2>2, <3>1, UsedUp
    <2>3. CASE /\ ~(a = deployment.target /\ ~retention[a].active)
               /\ ~(a # deployment.target /\ op.type = "rollback_adapter" /\ a = op.target)
        <3>1. retention'[a] = retention[a]
            BY <1>1, <1>2, <2>3 DEF RetentionsAfter
        <3>2. QED
            BY <1>2, <1>3, <2>3, <3>1, GovernanceAssumption
    <2>4. QED
        BY <2>1, <2>2, <2>3
<1>5. retention' \in [Adapters -> Retention]
    BY <1>1, <1>4 DEF RetentionsAfter
<1>6. Deployed \subseteq Adapters
    BY DEF GovernanceInv, TypeOK, Deployment, Targets, Deployed
<1>7. Retained' = IF op.type = "rollback_adapter"
                  THEN (Retained \union Deployed) \ {op.target}
                  ELSE Retained \union Deployed
    BY <1>2, <1>4, <1>6, GovernanceAssumption DEF Retained, Deployed
<1>8. \A a \in Adapters \ Deployed : retention'[a].review = retention[a].review
    BY <1>4, GovernanceAssumption DEF Deployed
<1>9. \A a \in Deployed : retention'[a].review = deployment.review
    BY <1>4, <1>6 DEF Deployed
<1>10. QED
    BY <1>5, <1>7, <1>8, <1>9

LEMMA CommitStep ==
    ASSUME GovernanceInv, NEW w \in Workers, CommitDeployment(w)
    PROVE  GovernanceInv'
<1> DEFINE a == op.target
<1>1. /\ deployment' = [target |-> a, review |-> op.review, version |-> deployment.version + 1]
      /\ op' = Ended("succeeded")
      /\ wk' = [wk EXCEPT ![w] = IdleWorker]
      /\ UNCHANGED <<authority, answer>>
    BY DEF CommitDeployment
<1>2. /\ op.status = "running"
      /\ a # Base => bytes[a] /\ ApprovedTarget(a, op.review)
    BY FinalChecks DEF CommitDeployment
<1>3. a \in Targets /\ (a = Base <=> op.review = NoReview)
    BY <1>2 DEF GovernanceInv, TypeOK, OperationRow, ReviewsNamed, ActiveOperation, ActiveStatus
<1>4. ~ActiveOperation'
    BY <1>1, EndedTyped DEF ActiveOperation, ActiveStatus, OperationStatus
<1>5. Deployed' = {a} \ {Base} /\ Deployed' \subseteq Adapters
    BY <1>1, <1>3 DEF Deployed, Targets
<1>6. Retained' \subseteq Retained \union Deployed
    BY RetentionsCommitted
<1>7. TypeOK'
    <2>1. op' \in OperationRow /\ op'.owner = NoWorker
        BY <1>1, EndedTyped DEF OperationStatus
    <2>2. wk' \in [Workers -> Worker]
        BY <1>1, WorkerPhase DEF GovernanceInv, IdleWorker
    <2>3. deployment' \in Deployment /\ (deployment'.target = Base <=> deployment'.review = NoReview)
        BY <1>1, <1>3 DEF GovernanceInv, TypeOK, OperationRow, Deployment
    <2>4. QED
        BY <1>1, <2>1, <2>2, <2>3, RetentionsCommitted DEF GovernanceInv, TypeOK, authority
<1>8. PurgesAgree'
    BY <1>1, PurgesFrame DEF GovernanceInv, authority
<1>9. ReviewsNamed' /\ ActiveOperationFits'
    <2>1. \A b \in Deployed : deployment.review \in Evaluations
        BY DEF GovernanceInv, TypeOK, Deployment, Deployed
    <2>2. QED
        BY <1>4, <1>6, <2>1, RetentionsCommitted
        DEF GovernanceInv, ReviewsNamed, ActiveOperationFits, Retained
<1>10. BytesInUseStay'
    <2>1. a # Base => adapter[a].status = "validated" /\ bytes[a]
        BY <1>2 DEF ApprovedTarget, Approvable
    <2>2. UNCHANGED <<adapter, bytes, Answering>>
        BY <1>1 DEF authority, Answering
    <2>3. QED
        BY <1>5, <1>6, <2>1, <2>2 DEF GovernanceInv, BytesInUseStay
<1>11. ReviewsInUseStay'
    <2>1. a # Base => AdapterOf[op.review] = a /\ review[op.review] = "approved"
        BY <1>2 DEF ApprovedTarget
    <2>2. UNCHANGED <<review, eval>> /\ deployment'.review = op.review
        BY <1>1 DEF authority
    <2>3. \A b \in Retained' : AdapterOf[retention'[b].review] = b /\ review[retention'[b].review] = "approved"
        <3> TAKE b \in Retained'
        <3>1. CASE b \in Deployed
            BY <3>1, RetentionsCommitted DEF GovernanceInv, ReviewsInUseStay
        <3>2. CASE b \notin Deployed
            <4>1. b \in Retained /\ b \in Adapters
                BY <1>6, <3>2 DEF Retained
            <4>2. QED
                BY <3>2, <4>1, RetentionsCommitted DEF GovernanceInv, ReviewsInUseStay
        <3>3. QED
            BY <3>1, <3>2
    <2>4. QED
        BY <1>5, <2>1, <2>2, <2>3 DEF GovernanceInv, ReviewsInUseStay
<1>12. QED
    BY <1>7, <1>8, <1>9, <1>10, <1>11 DEF GovernanceInv

\* The release of a retention no operation rolls back to.
LEMMA ReleaseStep ==
    ASSUME GovernanceInv, NEW a \in Adapters, ReleaseRetention(a)
    PROVE  GovernanceInv'
<1>1. /\ UNCHANGED <<authority, deployment, op, wk, answer>> /\ ~ActiveOperation
      /\ retention' \in [Adapters -> Retention]
      /\ Retained' = Retained \ {a}
      /\ \A b \in Adapters : retention'[b].review = retention[b].review
    BY DEF GovernanceInv, TypeOK, Retention, ReleaseRetention, Retained
<1>2. TypeOK'
    BY <1>1 DEF GovernanceInv, TypeOK, authority
<1>3. BytesInUseStay'
    BY <1>1 DEF GovernanceInv, BytesInUseStay, authority, Deployed, Answering
<1>4. ReviewsInUseStay'
    <2>1. UNCHANGED <<Deployed, deployment, review, eval>> /\ Retained \subseteq Adapters
        BY <1>1 DEF Deployed, Retained, authority
    <2>2. QED
        BY <1>1, <2>1 DEF GovernanceInv, ReviewsInUseStay
<1>5. ReviewsNamed' /\ ActiveOperationFits'
    BY <1>1 DEF GovernanceInv, ReviewsNamed, ActiveOperationFits, ActiveOperation, Retained
<1>6. QED
    BY <1>1, <1>2, <1>3, <1>4, <1>5, PurgesFrame DEF GovernanceInv, authority

(***************************************************************************)
(* The invariant and what it gives.                                        *)
(***************************************************************************)

LEMMA NextGovernance == GovernanceInv /\ [Next]_vars => GovernanceInv'
<1> SUFFICES ASSUME GovernanceInv, [Next]_vars PROVE GovernanceInv'
    OBVIOUS
<1>1. CASE UNCHANGED vars
    BY <1>1, WorkerOnly DEF vars, authority, GovernanceInv, TypeOK
<1>2. CASE Next
    BY <1>2, SuiteStep, EvaluationStep, AnswerStep, PurgeStep, ReviewStep, EnqueueStep, RowStep,
       WorkerQuiet, ClaimStep, FailStep, CommitStep, ReleaseStep
    DEF Next, WorkerStep
<1>3. QED
    BY <1>1, <1>2

\* The invariant TLC checks on two adapters, for any number of them.
THEOREM GovernanceInvariant == Spec => []GovernanceInv
BY InitGovernance, NextGovernance, PTL DEF Spec

\* Every reachable state is typed, and no row names a worker, a review or a
\* target that is not there.
THEOREM GovernanceTyped == Spec => []TypeOK
<1>1. GovernanceInv => TypeOK
    BY DEF GovernanceInv
<1>2. QED
    BY <1>1, GovernanceInvariant, PTL

\* Whatever order the API, the workers and the purge of an adapter take, the
\* adapters in use keep their registration and their bytes.
THEOREM UsedAdaptersKeepBytes == Spec => []BytesInUseStay
<1>1. GovernanceInv => BytesInUseStay
    BY DEF GovernanceInv
<1>2. QED
    BY <1>1, GovernanceInvariant, PTL

\* The pointer and the retentions always name an approved review of an
\* evaluation that passed.
THEOREM UsedReviewsStay == Spec => []ReviewsInUseStay
<1>1. GovernanceInv => ReviewsInUseStay
    BY DEF GovernanceInv
<1>2. QED
    BY <1>1, GovernanceInvariant, PTL

\* What an operation was enqueued for still holds when its worker, the first
\* or any later one, reaches the final transaction.
THEOREM OperationsStayCurrent == Spec => []ActiveOperationFits
<1>1. GovernanceInv => ActiveOperationFits
    BY DEF GovernanceInv
<1>2. QED
    BY <1>1, GovernanceInvariant, PTL

(***************************************************************************)
(* The pointer moves with the success of an operation.                     *)
(***************************************************************************)

LEMMA OnlyCommitsMove ==
    ASSUME TypeOK, [Next]_vars, ~\E w \in Workers : CommitDeployment(w)
    PROVE  /\ UNCHANGED deployment
           /\ op'.status = "succeeded" => op.status = "succeeded"
<1> USE DEF TypeOK, OperationRow
<1>1. CASE UNCHANGED vars
    BY <1>1 DEF vars
<1>2. CASE CancelOperation \/ LoseRequester \/ Lapse
    BY <1>2 DEF CancelOperation, LoseRequester, Lapse, Ended, NoOperation
<1>3. CASE \E s \in Suites : ArchiveSuite(s)
    BY <1>3 DEF ArchiveSuite
<1>4. CASE \E e \in Evaluations : EnqueueEvaluation(e) \/ FinishEvaluation(e) \/ StopEvaluation(e)
    BY <1>4 DEF EnqueueEvaluation, FinishEvaluation, StopEvaluation
<1>5. CASE \E e \in Evaluations :
              StartReview(e) \/ ApproveReview(e) \/ RejectReview(e) \/ ArchiveReview(e)
    BY <1>5 DEF StartReview, ApproveReview, RejectReview, ArchiveReview
<1>6. CASE \E x \in Answers : StartAnswer(x) \/ EndAnswer(x)
    BY <1>6 DEF StartAnswer, EndAnswer
<1>7. CASE \E a \in Adapters :
              \/ RegisterPurge(a) \/ AuthorizeMove(a) \/ MoveRegistryFinal(a)
              \/ CompletePurge(a) \/ BlockPurge(a) \/ ReleaseRetention(a)
    BY <1>7 DEF RegisterPurge, AuthorizeMove, MoveRegistryFinal, CompletePurge, BlockPurge, ReleaseRetention
<1>8. CASE \/ EnqueueRollbackToBase
           \/ \E a \in Adapters :
                 EnqueueRollbackToAdapter(a) \/ \E e \in Evaluations : EnqueuePromotion(a, e)
    <2>1. ASSUME NEW type, NEW target, NEW e, NEW number, Enqueue(type, target, e, number)
          PROVE  UNCHANGED deployment /\ op'.status = "queued"
        BY <2>1 DEF Enqueue, NoOperation
    <2>2. QED
        BY <1>8, <2>1 DEF EnqueueRollbackToBase, EnqueueRollbackToAdapter, EnqueuePromotion
<1>9. CASE \E w \in Workers : ClaimNextOperation(w) \/ FailOwnedOperation(w)
    BY ZenonT(40), <1>9 DEF ClaimNextOperation, FailOwnedOperation, Ended, NoOperation
<1>10. CASE \E w \in Workers :
              \/ CheckClaim(w) \/ VerifyRegistryFinal(w) \/ ShutDown(w)
              \/ RefuseDeployment(w) \/ Crash(w)
    BY <1>10 DEF CheckClaim, VerifyRegistryFinal, ShutDown, RefuseDeployment, Crash
<1>11. QED
    BY <1>1, <1>2, <1>3, <1>4, <1>5, <1>6, <1>7, <1>8, <1>9, <1>10 DEF Next, WorkerStep

LEMMA CommitMoves ==
    ASSUME GovernanceInv, NEW w \in Workers, CommitDeployment(w)
    PROVE  /\ deployment' # deployment
           /\ op.status = "running" /\ ~op.cancel /\ op.authorized
           /\ op'.status = "succeeded"
           /\ \A a \in Deployed :
                 retention'[a].active /\ retention'[a].review = deployment.review
<1>1. op.status = "running" /\ ~op.cancel /\ op.authorized
    BY FinalChecks DEF CommitDeployment
<1>2. op.target # deployment.target
    BY <1>1 DEF GovernanceInv, ActiveOperationFits, ActiveOperation, ActiveStatus
<1>3. deployment'.target = op.target /\ op'.status = "succeeded"
    BY EndedTyped DEF CommitDeployment, OperationStatus
<1>4. \A a \in Deployed : retention'[a].active /\ retention'[a].review = deployment.review
    BY <1>2, RetentionsCommitted DEF Retained, Deployed
<1>5. QED
    BY <1>1, <1>2, <1>3, <1>4

\* No pointer moves without the success of a running, authorized operation
\* nobody cancelled, no success is without its move, and the adapter the
\* pointer leaves is retained with its review.
THEOREM PointerMovesHolds == Spec => PointerMoves
<1> DEFINE Move ==
        /\ deployment' # deployment =>
              /\ op.status = "running" /\ ~op.cancel /\ op.authorized
              /\ op'.status = "succeeded"
              /\ \A a \in Deployed :
                    retention'[a].active /\ retention'[a].review = deployment.review
        /\ op.status # "succeeded" /\ op'.status = "succeeded" =>
              deployment' # deployment
<1>1. GovernanceInv /\ [Next]_vars => [Move]_vars
    BY CommitMoves, OnlyCommitsMove DEF GovernanceInv
<1>2. QED
    BY <1>1, GovernanceInvariant, PTL DEF Spec, PointerMoves

(***************************************************************************)
(* The promise of governance to the department.                            *)
(***************************************************************************)

Withdrawn == {a \in Adapters : adapter[a].status # "validated"}

LEMMA PromiseInit == Init => Promise!PromiseInit
BY DEF Init, Promise!PromiseInit, Retained

\* A step that neither commits, releases nor registers is none of the promise's.
LEMMA PromiseQuiet ==
    ASSUME GovernanceInv, [Next]_vars,
           ~\E w \in Workers : CommitDeployment(w),
           ~\E a \in Adapters : ReleaseRetention(a) \/ RegisterPurge(a)
    PROVE  UNCHANGED <<deployment, retention, Withdrawn>>
<1> DEFINE CompletesPurge == \E a \in Adapters : CompletePurge(a)
<1>1. UNCHANGED retention /\ (CompletesPurge \/ UNCHANGED adapter)
    <2>1. CASE UNCHANGED vars
        BY <2>1 DEF vars
    <2>2. CASE CancelOperation \/ LoseRequester \/ Lapse
        BY <2>2 DEF CancelOperation, LoseRequester, Lapse, authority
    <2>3. CASE \E s \in Suites : ArchiveSuite(s)
        BY <2>3 DEF ArchiveSuite
    <2>4. CASE \E e \in Evaluations :
                  \/ EnqueueEvaluation(e) \/ FinishEvaluation(e) \/ StopEvaluation(e)
                  \/ StartReview(e) \/ ApproveReview(e) \/ RejectReview(e) \/ ArchiveReview(e)
        BY <2>4 DEF EnqueueEvaluation, FinishEvaluation, StopEvaluation,
                    StartReview, ApproveReview, RejectReview, ArchiveReview
    <2>5. CASE \E x \in Answers : StartAnswer(x) \/ EndAnswer(x)
        BY <2>5 DEF StartAnswer, EndAnswer, authority
    <2>6. CASE \E a \in Adapters :
                  AuthorizeMove(a) \/ MoveRegistryFinal(a) \/ CompletePurge(a) \/ BlockPurge(a)
        BY <2>6 DEF AuthorizeMove, MoveRegistryFinal, CompletePurge, BlockPurge
    <2>7. CASE \/ EnqueueRollbackToBase
               \/ \E a \in Adapters :
                     EnqueueRollbackToAdapter(a) \/ \E e \in Evaluations : EnqueuePromotion(a, e)
        BY <2>7 DEF EnqueueRollbackToBase, EnqueueRollbackToAdapter, EnqueuePromotion, Enqueue, authority
    <2>8. CASE \E w \in Workers :
                  \/ ClaimNextOperation(w) \/ FailOwnedOperation(w)
                  \/ CheckClaim(w) \/ VerifyRegistryFinal(w) \/ ShutDown(w)
                  \/ RefuseDeployment(w) \/ Crash(w)
        BY <2>8 DEF ClaimNextOperation, FailOwnedOperation, CheckClaim, VerifyRegistryFinal,
                    ShutDown, RefuseDeployment, Crash, authority
    <2>9. QED
        BY <2>1, <2>2, <2>3, <2>4, <2>5, <2>6, <2>7, <2>8 DEF Next, WorkerStep
<1>2. UNCHANGED Withdrawn
    <2>1. CASE UNCHANGED adapter
        BY <2>1 DEF Withdrawn
    <2>2. ASSUME NEW a \in Adapters, CompletePurge(a)
          PROVE  UNCHANGED Withdrawn
        <3>1. adapter[a].status # "validated"
            BY <2>2 DEF CompletePurge, GovernanceInv, PurgesAgree, ActivePurge, ActivePurgeStatus
        <3>2. /\ adapter'[a].status # "validated"
              /\ \A b \in Adapters \ {a} : adapter'[b] = adapter[b]
            BY <2>2 DEF CompletePurge, GovernanceInv, TypeOK, AdapterRow
        <3>3. QED
            BY <3>1, <3>2 DEF Withdrawn
    <2>3. QED
        BY <1>1, <2>1, <2>2
<1>3. QED
    BY <1>1, <1>2, OnlyCommitsMove DEF GovernanceInv

LEMMA PromiseCommit ==
    ASSUME GovernanceInv, NEW w \in Workers, CommitDeployment(w)
    PROVE  Promise!PromiseNext
<1> DEFINE a == op.target
<1>1. /\ op.status = "running"
      /\ a # Base => ApprovedTarget(a, op.review)
    BY FinalChecks DEF CommitDeployment
<1>2. /\ deployment'.target = a /\ a # deployment.target /\ a \in Targets
      /\ op.type = "rollback_adapter" => a \in Retained
      /\ UNCHANGED Withdrawn
    BY <1>1
    DEF CommitDeployment, authority, Withdrawn, GovernanceInv, TypeOK, OperationRow,
        ActiveOperationFits, ActiveOperation, ActiveStatus
<1>3. Retained' = IF op.type = "rollback_adapter"
                  THEN (Retained \union Deployed) \ {a}
                  ELSE Retained \union Deployed
    BY RetentionsCommitted
<1>4. CASE a = Base
    <2>1. op.type # "rollback_adapter"
        BY <1>2, <1>4, GovernanceAssumption DEF Retained
    <2>2. Promise!RollBackToBase
        BY <1>2, <1>3, <1>4, <2>1
        DEF Promise!RollBackToBase, Promise!KeptWithOutgoing, Deployed, Withdrawn
    <2>3. QED
        BY <2>2 DEF Promise!PromiseNext
<1>5. CASE a # Base /\ op.type = "rollback_adapter"
    <2>1. Promise!RollBackToAdapter(a) /\ a \in Adapters
        BY <1>2, <1>3, <1>5
        DEF Promise!RollBackToAdapter, Promise!KeptWithOutgoing, Deployed, Withdrawn, Targets
    <2>2. QED
        BY <2>1 DEF Promise!PromiseNext
<1>6. CASE a # Base /\ op.type # "rollback_adapter"
    <2>1. a \in Adapters /\ a \notin Withdrawn
        BY <1>1, <1>2, <1>6 DEF Targets, ApprovedTarget, Approvable, Withdrawn
    <2>2. Promise!Promote(a)
        BY <1>2, <1>3, <1>6, <2>1
        DEF Promise!Promote, Promise!KeptWithOutgoing, Deployed, Withdrawn
    <2>3. QED
        BY <2>1, <2>2 DEF Promise!PromiseNext
<1>7. QED
    BY <1>4, <1>5, <1>6

LEMMA PromiseRelease ==
    ASSUME GovernanceInv, NEW a \in Adapters, ReleaseRetention(a)
    PROVE  Promise!PromiseNext
<1>1. Retained' = Retained \ {a} /\ a \in Retained /\ a # deployment.target
    BY DEF GovernanceInv, TypeOK, Retention, ReleaseRetention, Retained
<1>2. UNCHANGED <<deployment, adapter>>
    BY DEF ReleaseRetention, authority
<1>3. Promise!Release(a)
    BY <1>1, <1>2 DEF Promise!Release
<1>4. QED
    BY <1>3 DEF Promise!PromiseNext

LEMMA PromiseRegister ==
    ASSUME GovernanceInv, NEW a \in Adapters, RegisterPurge(a)
    PROVE  Promise!PromiseNext \/ UNCHANGED Promise!promiseVars
<1>1. UNCHANGED <<deployment, retention, Retained>>
    BY DEF RegisterPurge, Retained
<1>2. Withdrawn' = Withdrawn \union {a}
    <2>1. /\ adapter'[a].status = "purge_pending"
          /\ \A b \in Adapters \ {a} : adapter'[b] = adapter[b]
        BY DEF RegisterPurge, GovernanceInv, TypeOK
    <2>2. QED
        BY <2>1 DEF Withdrawn
<1>3. CASE a \in Withdrawn
    BY <1>1, <1>2, <1>3 DEF Promise!promiseVars, Withdrawn
<1>4. CASE a \notin Withdrawn
    <2>1. a \notin Deployed \union Retained
        BY FencesKeepUses DEF RegisterPurge
    <2>2. a # deployment.target
        BY <2>1, GovernanceAssumption DEF Deployed
    <2>3. Promise!Withdraw(a)
        BY <1>1, <1>2, <1>4, <2>1, <2>2 DEF Promise!Withdraw, Withdrawn
    <2>4. QED
        BY <2>3 DEF Promise!PromiseNext
<1>5. QED
    BY <1>3, <1>4

\* Every step of reviews, operations, workers and purges is one explicit step
\* of DeploymentPromise, or none.
THEOREM ImplementsPromiseHolds == Spec => ImplementsPromise
<1>1. GovernanceInv /\ [Next]_vars => [Promise!PromiseNext]_(Promise!promiseVars)
    <2> SUFFICES ASSUME GovernanceInv, [Next]_vars
                 PROVE  Promise!PromiseNext \/ UNCHANGED Promise!promiseVars
        OBVIOUS
    <2>1. CASE \E w \in Workers : CommitDeployment(w)
        BY <2>1, PromiseCommit
    <2>2. CASE \E a \in Adapters : ReleaseRetention(a)
        BY <2>2, PromiseRelease
    <2>3. CASE \E a \in Adapters : RegisterPurge(a)
        BY <2>3, PromiseRegister
    <2>4. CASE /\ ~\E w \in Workers : CommitDeployment(w)
               /\ ~\E a \in Adapters : ReleaseRetention(a) \/ RegisterPurge(a)
        BY <2>4, PromiseQuiet DEF Promise!promiseVars, Withdrawn, Retained
    <2>5. QED
        BY <2>1, <2>2, <2>3, <2>4
<1>2. QED
    BY <1>1, GovernanceInvariant, PromiseInit, PTL DEF Spec, ImplementsPromise, Promise!PromiseSpec
=============================================================================
