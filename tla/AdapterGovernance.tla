------------------------- MODULE AdapterGovernance -------------------------
(***************************************************************************)
(* Phase 12.3: which adapter a department answers with.  A succeeded       *)
(* evaluation is reviewed; an approved review may be promoted; a worker    *)
(* claims the operation under a lease, verifies the bytes of the target    *)
(* and moves the deployment pointer in one transaction, which retains the  *)
(* adapter the pointer leaves.  Around it: evaluations, suites that are    *)
(* archived, answers that run on a snapshot of the pointer, and the purge  *)
(* that takes the adapter away.                                            *)
(*                                                                         *)
(* Every API call and every final transaction locks the department row     *)
(* first and is one step; claim, heartbeat and failure lock the operation  *)
(* row only; the bytes are moved outside of any transaction.               *)
(*                                                                         *)
(* Abstractions: one department, which stays active; the digests and       *)
(* versions a snapshot repeats are compared through what can change them   *)
(* (version of the adapter, status of the suite); a review is named by its *)
(* evaluation, which has one review ever, and its version by its status; a *)
(* claim is the worker that holds it, which claims nothing else before it  *)
(* is done or has crashed; a lease is live or lapsed.                      *)
(***************************************************************************)
EXTENDS Naturals, FiniteSets

CONSTANTS
    Adapters, Suites, Evaluations, Workers, Answers,
    AdapterOf,      \* the adapter an evaluation is of
    SuiteOf,        \* the suite it runs
    Base,           \* the target without an adapter
    MaxDeployments, \* bound: moves of the deployment pointer
    MaxPurges       \* bound: purge operations of an adapter

\* A column that is null.
NoWorker == "no worker"
NoReview == "no review"

ASSUME GovernanceAssumption ==
    /\ AdapterOf \in [Evaluations -> Adapters]
    /\ SuiteOf \in [Evaluations -> Suites]
    /\ Base \notin Adapters /\ NoReview \notin Evaluations
    /\ MaxDeployments \in Nat
    /\ MaxPurges \in Nat

VARIABLES
    adapter,        \* the adapter rows
    purge,          \* the latest purge operation of each adapter
    bytes,          \* the registry final of each adapter is in its place
    suite,          \* the status of the suites
    eval,           \* the evaluation runs
    review,         \* the status of the review of each evaluation
    deployment,     \* the deployment pointer of the department
    retention,      \* the latest rollback retention of each adapter
    op,             \* the latest deployment operation
    wk,             \* the memory of each worker process
    answer          \* the adapter a running answer has in its snapshot

authority == <<adapter, purge, bytes, suite, eval, review>>
vars == <<adapter, purge, bytes, suite, eval, review,
          deployment, retention, op, wk, answer>>

Targets == Adapters \union {Base}

\* The version every evaluation, review, pointer, retention and snapshot of
\* an adapter names: only registration and completion of a purge change it.
ValidatedVersion == 1

ActiveStatus == {"queued", "running"}
OperationStatus == ActiveStatus \union {"none", "succeeded", "failed", "cancelled"}
OperationType == {"promote", "rollback_adapter", "rollback_base"}
ActivePurgeStatus == {"registered", "authorized", "moved"}
PurgeStatus == ActivePurgeStatus \union {"none", "completed", "completed_with_blocks"}
ReviewStatus == {"none", "pending", "approved", "rejected", "archived"}
EvaluationStatus == {"none", "active", "passed", "failed"}
ErrorCodes == {"cancelled", "claim_lost", "worker_shutdown", "requester_unauthorized",
               "registry_artifact_missing", "database_unavailable",
               "deployment_version_conflict", "adapter_authority_changed",
               "rollback_target_unavailable", "review_authority_changed"}

AdapterRow == [status : {"validated", "purge_pending", "purged"}, version : Nat]
Deployment == [target : Targets, review : Evaluations \union {NoReview}, version : Nat]
Retention == [active : BOOLEAN, review : Evaluations \union {NoReview}, number : Nat]
OperationRow ==
    [status : OperationStatus, type : OperationType, target : Targets,
     review : Evaluations \union {NoReview}, retention : Nat, expected : Nat,
     current : Targets, cancel : BOOLEAN, authorized : BOOLEAN,
     owner : Workers \union {NoWorker}, live : BOOLEAN]
Worker == [phase : {"idle", "claimed", "verifying", "committing", "failing"},
           code : {"none"} \union ErrorCodes]

NoOperation ==
    [status |-> "none", type |-> "rollback_base", target |-> Base, review |-> NoReview,
     retention |-> 0, expected |-> 0, current |-> Base, cancel |-> FALSE,
     authorized |-> FALSE, owner |-> NoWorker, live |-> FALSE]
IdleWorker == [phase |-> "idle", code |-> "none"]

\* A terminal row is read for its status only.
Ended(status) == [NoOperation EXCEPT !.status = status]

Init ==
    /\ adapter = [a \in Adapters |-> [status |-> "validated", version |-> ValidatedVersion]]
    /\ purge = [a \in Adapters |-> "none"]
    /\ bytes = [a \in Adapters |-> TRUE]
    /\ suite = [s \in Suites |-> "active"]
    /\ eval = [e \in Evaluations |-> "none"]
    /\ review = [e \in Evaluations |-> "none"]
    /\ deployment = [target |-> Base, review |-> NoReview, version |-> 0]
    /\ retention = [a \in Adapters |-> [active |-> FALSE, review |-> NoReview, number |-> 0]]
    /\ op = NoOperation
    /\ wk = [w \in Workers |-> IdleWorker]
    /\ answer = [x \in Answers |-> Base]

TypeOK ==
    /\ adapter \in [Adapters -> AdapterRow]
    /\ purge \in [Adapters -> PurgeStatus]
    /\ bytes \in [Adapters -> BOOLEAN]
    /\ suite \in [Suites -> {"active", "archived"}]
    /\ eval \in [Evaluations -> EvaluationStatus]
    /\ review \in [Evaluations -> ReviewStatus]
    /\ deployment \in Deployment
    /\ retention \in [Adapters -> Retention]
    /\ op \in OperationRow
    /\ wk \in [Workers -> Worker]
    /\ answer \in [Answers -> Targets]
    /\ op.owner # NoWorker => op.status = "running"
    /\ (deployment.target = Base) <=> (deployment.review = NoReview)

(***************************************************************************)
(* Questions the transactions ask of the rows.                             *)
(***************************************************************************)

ActivePurge(a) == purge[a] \in ActivePurgeStatus
ActiveEvaluation(a) == \E e \in Evaluations : AdapterOf[e] = a /\ eval[e] = "active"
ActiveOperation == op.status \in ActiveStatus
PendingReview(a) == \E e \in Evaluations : AdapterOf[e] = a /\ review[e] = "pending"
Unchanged(a) == adapter[a].version = ValidatedVersion

\* _check_eligibility of the evaluation service.
Evaluable(e) ==
    /\ suite[SuiteOf[e]] = "active"
    /\ ~ActivePurge(AdapterOf[e])
    /\ adapter[AdapterOf[e]].status = "validated"

\* _validate_review_start
Reviewable(e) ==
    /\ eval[e] \in {"passed", "failed"}
    /\ Unchanged(AdapterOf[e])
    /\ adapter[AdapterOf[e]].status \notin {"purge_pending", "purged"}
    /\ suite[SuiteOf[e]] = "active"

\* _review_snapshot_matches: an archived suite has another version.
SnapshotMatches(e) == Unchanged(AdapterOf[e]) /\ suite[SuiteOf[e]] = "active"

\* _validate_approval
Approvable(e) ==
    /\ Reviewable(e)
    /\ adapter[AdapterOf[e]].status = "validated"
    /\ eval[e] = "passed"

\* Mutant: an approved review is enough.
ApprovedTargetByReview(a, e) ==
    /\ e \in Evaluations
    /\ AdapterOf[e] = a
    /\ review[e] = "approved"

\* _validate_approved_target
ApprovedTarget(a, e) ==
    /\ e \in Evaluations
    /\ AdapterOf[e] = a
    /\ review[e] = "approved"
    /\ Approvable(e)
    /\ SnapshotMatches(e)
    /\ ~ActivePurge(a)

\* Mutant: a retained adapter may be purged.
GovernanceFencesNoRetention(a, version) ==
    /\ ~ActiveEvaluation(a)
    /\ deployment.target = a => version # ValidatedVersion
    /\ ActiveOperation => a \notin {op.target, op.current}

\* _assert_governance_fences: what may not be when the purge of a goes on;
\* version is the one the adapter had when the purge was registered.
GovernanceFences(a, version) ==
    /\ ~ActiveEvaluation(a)
    /\ Unchanged(a) => ~PendingReview(a) /\ ~retention[a].active
    /\ deployment.target = a => version # ValidatedVersion
    /\ ActiveOperation => a \notin {op.target, op.current}
    /\ version = ValidatedVersion => \A x \in Answers : answer[x] # a

(***************************************************************************)
(* The department, suites, evaluations and answers.                        *)
(***************************************************************************)

ArchiveSuite(s) ==
    /\ suite[s] = "active"
    /\ suite' = [suite EXCEPT ![s] = "archived"]
    /\ UNCHANGED <<adapter, purge, bytes, eval, review,
                   deployment, retention, op, wk, answer>>

EnqueueEvaluation(e) ==
    /\ eval[e] = "none"
    /\ \A f \in Evaluations :
          eval[f] = "active" => AdapterOf[f] # AdapterOf[e] \/ SuiteOf[f] # SuiteOf[e]
    /\ Evaluable(e)
    /\ eval' = [eval EXCEPT ![e] = "active"]
    /\ UNCHANGED <<adapter, purge, bytes, suite, review,
                   deployment, retention, op, wk, answer>>

\* finalize_success of the evaluation worker, with either outcome of the gate.
FinishEvaluation(e) ==
    /\ eval[e] = "active"
    /\ Evaluable(e)
    /\ \E gate \in {"passed", "failed"} : eval' = [eval EXCEPT ![e] = gate]
    /\ UNCHANGED <<adapter, purge, bytes, suite, review,
                   deployment, retention, op, wk, answer>>

\* The run fails or is cancelled: e names the next run of its adapter.
StopEvaluation(e) ==
    /\ eval[e] = "active"
    /\ eval' = [eval EXCEPT ![e] = "none"]
    /\ UNCHANGED <<adapter, purge, bytes, suite, review,
                   deployment, retention, op, wk, answer>>

\* load_runtime_target, when an adapter is deployed.
RuntimeTarget ==
    deployment.target # Base /\ ApprovedTarget(deployment.target, deployment.review)

\* _start_run, with its snapshot of the target.
StartAnswer(x) ==
    /\ answer[x] = Base
    /\ RuntimeTarget
    /\ answer' = [answer EXCEPT ![x] = deployment.target]
    /\ UNCHANGED <<authority, deployment, retention, op, wk>>

\* The run is completed or failed; a process that dies before leaves it running.
EndAnswer(x) ==
    /\ answer[x] # Base
    /\ answer' = [answer EXCEPT ![x] = Base]
    /\ UNCHANGED <<authority, deployment, retention, op, wk>>

(***************************************************************************)
(* The purge of an adapter.                                                *)
(***************************************************************************)

RegisterPurge(a) ==
    /\ ~ActivePurge(a)
    /\ adapter[a].status # "purged"
    /\ adapter[a].version <= MaxPurges
    /\ GovernanceFences(a, adapter[a].version)
    /\ adapter' = [adapter EXCEPT ![a] = [status |-> "purge_pending",
                                          version |-> @.version + 1]]
    /\ purge' = [purge EXCEPT ![a] = "registered"]
    /\ UNCHANGED <<bytes, suite, eval, review,
                   deployment, retention, op, wk, answer>>

\* _persist_move_intent
AuthorizeMove(a) ==
    /\ purge[a] = "registered"
    /\ bytes[a]
    /\ GovernanceFences(a, adapter[a].version - 1)
    /\ purge' = [purge EXCEPT ![a] = "authorized"]
    /\ UNCHANGED <<adapter, bytes, suite, eval, review,
                   deployment, retention, op, wk, answer>>

\* The rename is outside of every transaction: the fences are asked for once
\* more before it (_assert_verified_move_context), never with it.
MoveRegistryFinal(a) ==
    /\ purge[a] = "authorized"
    /\ bytes' = [bytes EXCEPT ![a] = FALSE]
    /\ purge' = [purge EXCEPT ![a] = "moved"]
    /\ UNCHANGED <<adapter, suite, eval, review,
                   deployment, retention, op, wk, answer>>

CompletePurge(a) ==
    /\ purge[a] = "moved"
    /\ GovernanceFences(a, adapter[a].version - 1)
    /\ purge' = [purge EXCEPT ![a] = "completed"]
    /\ adapter' = [adapter EXCEPT ![a] = [status |-> "purged", version |-> @.version + 1]]
    /\ UNCHANGED <<bytes, suite, eval, review,
                   deployment, retention, op, wk, answer>>

\* An item is blocked, which ends the operation and leaves the adapter pending.
BlockPurge(a) ==
    /\ ActivePurge(a)
    /\ purge' = [purge EXCEPT ![a] = "completed_with_blocks"]
    /\ UNCHANGED <<adapter, bytes, suite, eval, review,
                   deployment, retention, op, wk, answer>>

(***************************************************************************)
(* Reviews.                                                                *)
(***************************************************************************)

StartReview(e) ==
    /\ review[e] = "none"
    /\ Reviewable(e)
    /\ ~ActivePurge(AdapterOf[e])
    /\ ~ActiveEvaluation(AdapterOf[e])
    /\ ~PendingReview(AdapterOf[e])
    /\ review' = [review EXCEPT ![e] = "pending"]
    /\ UNCHANGED <<adapter, purge, bytes, suite, eval,
                   deployment, retention, op, wk, answer>>

\* One approved review of an adapter version: uq_adapter_review_approved_adapter.
ApproveReview(e) ==
    /\ review[e] = "pending"
    /\ SnapshotMatches(e)
    /\ Approvable(e)
    /\ \A f \in Evaluations : AdapterOf[f] = AdapterOf[e] => review[f] # "approved"
    /\ review' = [review EXCEPT ![e] = "approved"]
    /\ UNCHANGED <<adapter, purge, bytes, suite, eval,
                   deployment, retention, op, wk, answer>>

RejectReview(e) ==
    /\ review[e] = "pending"
    /\ SnapshotMatches(e)
    /\ Reviewable(e)
    /\ review' = [review EXCEPT ![e] = "rejected"]
    /\ UNCHANGED <<adapter, purge, bytes, suite, eval,
                   deployment, retention, op, wk, answer>>

\* Mutant: a retention does not keep the review.
KeptByDeploymentNoRetention(e) ==
    deployment.target = AdapterOf[e] \/ ActiveOperation

\* What keeps an approved review from being archived.
KeptByDeployment(e) ==
    \/ deployment.target = AdapterOf[e]
    \/ retention[AdapterOf[e]].active
    \/ ActiveOperation

ArchiveReview(e) ==
    /\ review[e] \in {"approved", "rejected"}
    /\ SnapshotMatches(e)
    /\ review[e] = "approved" => ~KeptByDeployment(e)
    /\ review' = [review EXCEPT ![e] = "archived"]
    /\ UNCHANGED <<adapter, purge, bytes, suite, eval,
                   deployment, retention, op, wk, answer>>

(***************************************************************************)
(* Deployment operations: the API.                                         *)
(***************************************************************************)

\* _operation_from_target, and the one active operation of a department.
Enqueue(type, target, e, number) ==
    /\ ~ActiveOperation
    /\ deployment.version < MaxDeployments
    /\ op' = [NoOperation EXCEPT
                !.status = "queued", !.type = type, !.target = target, !.review = e,
                !.retention = number, !.expected = deployment.version,
                !.current = deployment.target, !.authorized = TRUE]
    /\ UNCHANGED <<authority, deployment, retention, wk, answer>>

EnqueuePromotion(a, e) ==
    /\ ApprovedTarget(a, e)
    /\ deployment.target # a
    /\ Enqueue("promote", a, e, 0)

EnqueueRollbackToBase ==
    /\ deployment.target # Base
    /\ Enqueue("rollback_base", Base, NoReview, 0)

EnqueueRollbackToAdapter(a) ==
    /\ deployment.version > 0
    /\ retention[a].active
    /\ deployment.target # a
    /\ ApprovedTarget(a, retention[a].review)
    /\ Enqueue("rollback_adapter", a, retention[a].review, retention[a].number)

CancelOperation ==
    /\ ActiveOperation
    /\ op' = IF op.status = "queued" THEN Ended("cancelled") ELSE [op EXCEPT !.cancel = TRUE]
    /\ UNCHANGED <<authority, deployment, retention, wk, answer>>

\* Mutant: the retention of an active rollback may be released.
ReleaseRetentionDuringOperation(a) ==
    /\ retention[a].active
    /\ Unchanged(a)
    /\ deployment.target # a
    /\ retention' = [retention EXCEPT ![a].active = FALSE]
    /\ UNCHANGED <<authority, deployment, op, wk, answer>>

ReleaseRetention(a) ==
    /\ retention[a].active
    /\ Unchanged(a)
    /\ deployment.target # a
    /\ ~ActiveOperation
    /\ ~ActivePurge(a)
    /\ ~ActiveEvaluation(a)
    /\ ~PendingReview(a)
    /\ deployment.target # Base => review[deployment.review] = "approved"
    /\ retention' = [retention EXCEPT ![a].active = FALSE]
    /\ UNCHANGED <<authority, deployment, op, wk, answer>>

\* The requester of an operation loses its administrator's membership.
LoseRequester ==
    /\ ActiveOperation
    /\ op.authorized
    /\ op' = [op EXCEPT !.authorized = FALSE]
    /\ UNCHANGED <<authority, deployment, retention, wk, answer>>

(***************************************************************************)
(* Deployment operations: the worker.                                      *)
(***************************************************************************)

\* _claim_matches_live_worker: a worker whose operation has ended, or was
\* taken over, is not the owner of the latest one.
ClaimMatches(w) == op.status = "running" /\ op.owner = w /\ op.live

\* Mutant: a cancellation is not asked for.
ClaimOwnedOrCancelled(w) == ClaimMatches(w)

\* _claim_is_owned
ClaimOwned(w) == ClaimMatches(w) /\ ~op.cancel

Claimable ==
    \/ op.status = "queued"
    \/ op.status = "running" /\ ~op.live

ClaimNextOperation(w) ==
    /\ wk[w].phase = "idle"
    /\ Claimable
    /\ op' = [op EXCEPT !.status = "running", !.owner = w, !.live = TRUE]
    /\ wk' = [wk EXCEPT ![w] = [phase |-> "claimed", code |-> "none"]]
    /\ UNCHANGED <<authority, deployment, retention, answer>>

To(w, phase) == wk' = [wk EXCEPT ![w].phase = phase]
Refuse(w, code) == wk' = [wk EXCEPT ![w].phase = "failing", ![w].code = code]

\* A cancellation of a claim that is still held is told apart from its loss.
ClaimFailure(w) == IF ClaimMatches(w) THEN "cancelled" ELSE "claim_lost"

\* The first transaction of finalize_owned_operation.
CheckClaim(w) ==
    /\ wk[w].phase = "claimed"
    /\ \/ ClaimOwned(w) /\ To(w, IF op.target = Base THEN "committing" ELSE "verifying")
       \/ ~ClaimOwned(w) /\ Refuse(w, ClaimFailure(w))
    /\ UNCHANGED <<authority, deployment, retention, op, answer>>

\* verify_registry_final with its heartbeats: each asks for the claim and
\* renews the lease; the descriptors stay open.
VerifyRegistryFinal(w) ==
    /\ wk[w].phase = "verifying"
    /\ \/ ~ClaimOwned(w) /\ Refuse(w, ClaimFailure(w))
       \/ ClaimOwned(w) /\ bytes[op.target] /\ To(w, "committing")
       \/ /\ ClaimOwned(w) /\ ~bytes[op.target]
          /\ Refuse(w, "registry_artifact_missing")
    /\ UNCHANGED <<authority, deployment, retention, op, answer>>

\* A signal reaches the worker before its final transaction.
ShutDown(w) ==
    /\ wk[w].phase \in {"verifying", "committing"}
    /\ Refuse(w, "worker_shutdown")
    /\ UNCHANGED <<authority, deployment, retention, op, answer>>

\* What refuses the target of the operation in its final transaction.
TargetRefusal(w) ==
    CASE op.target = Base -> "none"
      [] ~ApprovedTarget(op.target, op.review) -> "adapter_authority_changed"
      [] /\ op.type = "rollback_adapter"
         /\ \/ ~retention[op.target].active
            \/ retention[op.target].number # op.retention -> "rollback_target_unavailable"
      [] OTHER -> "none"

\* What refuses the adapter the pointer would leave.
OutgoingRefusal ==
    LET a == deployment.target
        e == deployment.review
    IN  CASE a = Base -> "none"
          [] review[e] # "approved" -> "review_authority_changed"
          [] ~ApprovedTarget(a, e) -> "adapter_authority_changed"
          [] retention[a].active /\ retention[a].review # e -> "review_authority_changed"
          [] OTHER -> "none"

\* The checks of the final transaction, in their order; "none" lets it commit.
FinalRefusal(w) ==
    CASE ~ClaimOwned(w) -> ClaimFailure(w)
      [] op.target # Base /\ ~bytes[op.target] -> "database_unavailable"
      [] deployment.version # op.expected -> "deployment_version_conflict"
      [] TargetRefusal(w) # "none" -> TargetRefusal(w)
      [] ~op.authorized -> "requester_unauthorized"
      [] OTHER -> OutgoingRefusal

\* Mutant: the retention of the adapter the pointer leaves is not created.
RetentionsWithoutOutgoing(w) ==
    [a \in Adapters |->
        IF op.type = "rollback_adapter" /\ a = op.target
        THEN [retention[a] EXCEPT !.active = FALSE]
        ELSE retention[a]]

\* _retention_for_outgoing, and the retention a rollback uses up.
RetentionsAfter(w) ==
    [a \in Adapters |->
        CASE a = deployment.target /\ ~retention[a].active ->
                [active |-> TRUE, review |-> deployment.review,
                 number |-> retention[a].number + 1]
          [] op.type = "rollback_adapter" /\ a = op.target ->
                [retention[a] EXCEPT !.active = FALSE]
          [] OTHER -> retention[a]]

\* Mutant: the claim fields stay on the operation that succeeded.
CommitDeploymentKeepsClaim(w) ==
    /\ wk[w].phase = "committing"
    /\ FinalRefusal(w) = "none"
    /\ deployment' = [target |-> op.target, review |-> op.review,
                      version |-> deployment.version + 1]
    /\ retention' = RetentionsAfter(w)
    /\ op' = [op EXCEPT !.status = "succeeded"]
    /\ wk' = [wk EXCEPT ![w] = IdleWorker]
    /\ UNCHANGED <<authority, answer>>

\* The final transaction: the pointer, the retentions and the operation.
CommitDeployment(w) ==
    /\ wk[w].phase = "committing"
    /\ FinalRefusal(w) = "none"
    /\ deployment' = [target |-> op.target, review |-> op.review,
                      version |-> deployment.version + 1]
    /\ retention' = RetentionsAfter(w)
    /\ op' = Ended("succeeded")
    /\ wk' = [wk EXCEPT ![w] = IdleWorker]
    /\ UNCHANGED <<authority, answer>>

RefuseDeployment(w) ==
    /\ wk[w].phase = "committing"
    /\ FinalRefusal(w) # "none"
    /\ Refuse(w, FinalRefusal(w))
    /\ UNCHANGED <<authority, deployment, retention, op, answer>>

FailOwnedOperation(w) ==
    /\ wk[w].phase = "failing"
    /\ wk' = [wk EXCEPT ![w] = IdleWorker]
    /\ op' = IF ClaimMatches(w) /\ (op.cancel \/ wk[w].code # "cancelled")
             THEN Ended(IF op.cancel THEN "cancelled" ELSE "failed")
             ELSE op
    /\ UNCHANGED <<authority, deployment, retention, answer>>

\* A worker process dies and starts anew without memory of its claim.
Crash(w) ==
    /\ wk[w].phase # "idle"
    /\ wk' = [wk EXCEPT ![w] = IdleWorker]
    /\ UNCHANGED <<authority, deployment, retention, op, answer>>

\* The lease runs out: its worker has died, or stalls.
Lapse ==
    /\ op.status = "running"
    /\ op.live
    /\ op' = [op EXCEPT !.live = FALSE]
    /\ UNCHANGED <<authority, deployment, retention, wk, answer>>

(***************************************************************************)
(* The specification.                                                      *)
(***************************************************************************)

\* run_once, without the signal.
WorkerStep(w) ==
    \/ ClaimNextOperation(w)
    \/ CheckClaim(w)
    \/ VerifyRegistryFinal(w)
    \/ CommitDeployment(w)
    \/ RefuseDeployment(w)
    \/ FailOwnedOperation(w)

Next ==
    \/ EnqueueRollbackToBase \/ CancelOperation \/ LoseRequester \/ Lapse
    \/ \E s \in Suites : ArchiveSuite(s)
    \/ \E e \in Evaluations :
          \/ EnqueueEvaluation(e) \/ FinishEvaluation(e) \/ StopEvaluation(e)
          \/ StartReview(e) \/ ApproveReview(e) \/ RejectReview(e) \/ ArchiveReview(e)
    \/ \E x \in Answers : StartAnswer(x) \/ EndAnswer(x)
    \/ \E a \in Adapters :
          \/ RegisterPurge(a) \/ AuthorizeMove(a) \/ MoveRegistryFinal(a)
          \/ CompletePurge(a) \/ BlockPurge(a)
          \/ EnqueueRollbackToAdapter(a) \/ ReleaseRetention(a)
          \/ \E e \in Evaluations : EnqueuePromotion(a, e)
    \/ \E w \in Workers : WorkerStep(w) \/ ShutDown(w) \/ Crash(w)

Spec == Init /\ [][Next]_vars

(***************************************************************************)
(* Properties.                                                             *)
(***************************************************************************)

Deployed == {deployment.target} \ {Base}
Retained == {a \in Adapters : retention[a].active}
Answering == {answer[x] : x \in Answers} \ {Base}

\* What the department answers with, may answer with after a rollback, or
\* answers with right now is validated and has its bytes in their place: no
\* order of review, promotion, rollback, release, purge and answer takes
\* them away (the fences of adapter_purge and the checks of the final
\* transaction).
BytesInUseStay ==
    \A a \in Deployed \union Retained \union Answering :
        adapter[a].status = "validated" /\ bytes[a]

\* The pointer and every retention name an approved review of their adapter
\* of an evaluation that passed: neither can be archived under them, and a
\* second review cannot take its place.
ReviewsInUseStay ==
    /\ \A a \in Deployed :
          AdapterOf[deployment.review] = a /\ review[deployment.review] = "approved"
    /\ \A a \in Retained :
          AdapterOf[retention[a].review] = a /\ review[retention[a].review] = "approved"
    /\ \A e \in Evaluations : review[e] = "approved" => eval[e] = "passed"

\* An active operation still expects the pointer as it is, and a rollback has
\* its retention waiting: no worker ever meets a version conflict or a
\* retention that is gone, whatever was reviewed, released or purged since.
ActiveOperationFits ==
    ActiveOperation =>
        /\ op.expected = deployment.version
        /\ op.current = deployment.target
        /\ op.target # deployment.target
        /\ op.type = "rollback_adapter" =>
              /\ op.target \in Retained
              /\ retention[op.target].number = op.retention
              /\ retention[op.target].review = op.review

\* The pointer moves once for an operation, with its success; its
\* cancellation was not requested, its requester still administers the
\* department, and the adapter it leaves is retained with the review it was
\* deployed under.  No operation succeeds without moving it.
PointerMoves ==
    [][/\ deployment' # deployment =>
            /\ op.status = "running" /\ ~op.cancel /\ op.authorized
            /\ op'.status = "succeeded"
            /\ \A a \in Deployed :
                  retention'[a].active /\ retention'[a].review = deployment.review
       /\ op.status # "succeeded" /\ op'.status = "succeeded" =>
            deployment' # deployment]_vars

\* The promise of governance to the department.
Promise == INSTANCE DeploymentPromise WITH
    pointer <- deployment.target,
    kept <- Retained,
    withdrawn <- {a \in Adapters : adapter[a].status # "validated"}

ImplementsPromise == Promise!PromiseSpec

\* "the existing explicit rollback-to-base operation remains the only
\* rollback path" when the runtime fails closed: the rollback itself does
\* not depend on the authority of the adapter it leaves.
RollbackToBaseOpen ==
    \A w \in Workers :
        wk[w].phase = "failing" /\ ClaimOwned(w) /\ op.type = "rollback_base" =>
            wk[w].code \notin {"adapter_authority_changed", "review_authority_changed"}
=============================================================================
