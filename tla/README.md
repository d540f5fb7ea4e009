# DeptSLM in TLA+

DeptSLM is a department-scoped platform for retrieval-augmented answers and for
the governed life cycle of small-model adapters: documents are uploaded,
extracted, indexed and answered from; reviewed feedback becomes SFT datasets;
datasets become training-job bundles; bundles are executed, the resulting
adapters are registered, evaluated, promoted, rolled back and finally purged.
Almost all of it is one pattern: **PostgreSQL rows are the authority, the file
system (or Qdrant) holds the bytes, the two are never changed atomically, and
workers, API requests and command-line maintenance run against both at the same
time, any of them stopping at any point.** That pattern, and the fences between
its instances, are what this directory specifies.

## 1. Inventory

| component | state it keeps | operations | interacts with |
|---|---|---|---|
| Departments, memberships (`services.py`, `authorization.py`, `admin.py`) | department status, membership role/status/expiry, versions | create, update, suspend, revoke, archive; last administrator protected | every mutation re-authorises inside its own transaction |
| Documents, upload, extraction (`document_*.py`, `extraction_services.py`, `rag-worker/queue.py`, `pipeline.py`) | document and extraction rows, chunks, files under a department path | upload, finalise, enqueue, claim, extract, publish, retry, cancel | indexing reads published chunks |
| Vector indexing (`vector_index_services.py`, `index_queue.py`, `index_pipeline.py`, `qdrant_adapter.py`) | index rows and attempts, points in Qdrant | enqueue, claim, upsert, verify, activate, clean up | Qdrant has no transaction with PostgreSQL |
| RAG answers (`rag_answer_services.py`, `rag_runtime_router.py`, `selected_chunk_reader.py`) | run rows, citations | start, retrieve, re-validate sources, generate, finalise or fail | index activation, deployment pointer, model runtime |
| Feedback, feedback purge | feedback rows, review status | submit, review, purge | source of SFT data |
| Evaluation suites and runs (`evaluation_*.py`, `evaluation_queue.py`) | suites, runs, artefacts | activate, enqueue, claim, publish | indexing, generation |
| SFT datasets (`sft_*.py`) | source bundles, builds, attempts, final directories | import, enqueue, claim, build, publish, review, archive, purge, reconcile | feedback authority in, training jobs out |
| Training jobs, Phase 11 (`training_job_*.py`) | job rows, attempts, published bundle, purge operations, items, reservations | enqueue, claim, build, publish, review, archive, reconcile, purge | datasets in; executions and adapters fence its purge |
| Training executions, Phase 14.1 (`training_execution_*.py`) | executions, attempts, private attempt directories | enqueue, cancel, retry, claim, reclaim, copy, run, renew, finalise | job authority, purge fence, injected runtime |
| Adapter sources, registry (`adapter_source_*.py`, `adapter_registry_*.py`) | sources, adapters, attempts, upstream dependencies, final directories | intake, register, claim, verify, publish | dependency fences job and dataset purge |
| Adapter evaluation (`adapter_evaluation_*.py`) | paired runs, results | enqueue, claim, run, publish, cancel | registry, adapter evaluation runtime |
| Adapter governance (`adapter_governance_*.py`, `adapter_deployment_authority.py`) | reviews, deployment pointer, operations, retentions, events | review, promote, roll back, cancel, release retention | evaluation in; RAG routing out; fences adapter purge |
| Adapter reconciliation, purge, release (`adapter_artifact_maintenance.py`, `adapter_purge.py`, `adapter_lifecycle_release.py`) | operations, items, move journal | reconcile, purge, release dependency | registry, governance |
| Model runtimes (`services/*-runtime`) | child processes, loaded model | load, generate, health, terminate | RAG, evaluation |
| HTTP, settings, audit, web application | none of their own | validation, presentation | all |

What is hard in this code, and what a specification is for:

* **leases**: a worker that stalls past its lease, is replaced, and comes back
  holding descriptors, results and a stale claim;
* **check, then act**: authority read in one transaction and used after it: a
  candidate selected without a lock, files touched after a fence was checked;
* **two stores**: a rename without its row, a row without its rename, a crash
  between the two, and the next process that finds either;
* **cross-component fences**: enqueue against archive and purge, promotion
  against purge, evaluation against everything;
* **constraints as last resort**: many wrong writes are refused by a CHECK or a
  partial unique index, and the question is what happens then;
* **liveness through recovery only**: no scheduler exists; an abandoned row is
  settled by a later claim, an abandoned purge by the next command.

The properties that make each component correct, in a sentence: a fence that
one side checked holds for as long as that side relies on it; a claim has one
owner; history is never rewritten; bytes leave only under durable authority, and
a row never promises bytes that are gone; what was requested to stop does not
succeed; whatever was started is settled by someone.

## 2. Modules

| module | models | role |
|---|---|---|
| `TrainingJob` | `services.py` (department archive, administrators), `training_job_services.py` (review), `training_job_maintenance.py` (archive, purge), the bundle's place on disk | component; takes the set of jobs with an active execution as a parameter of its actions |
| `TrainingExecution` | `training_execution_*.py` | EXTENDS `TrainingJob`, composes both: `Next` is a step of the job's world or of the execution's |
| `MCTrainingExecution` | | symmetry |
| `TrainingPurge` | the purge of `training_job_maintenance.py` again, with the tombstones of `sft_artifacts.py`: several jobs, file by file | component |
| `MCTraining` | | `TrainingExecution` and `TrainingPurge` side by side, the fair specification, the liveness properties |
| `TrainingExecution_proofs` | | type correctness, the fence, ownership, history and numbers of attempts, what the purge of `TrainingJob` promises and that it never runs under an owner |
| `TrainingPurge_proofs` | | the types and the books of `TrainingPurge` |
| `BundlePublication` | | abstract specification: one success, its bundle whole in the same step, both for good |
| `TrainingPublication` | `training_job_queue.py`, the stages and finals of `sft_artifacts.py`, enqueue and cancel of `training_job_services.py`, reconcile of `training_job_maintenance.py` | component; implements `BundlePublication` |
| `MCTrainingPublication` | | symmetry |
| `DeploymentPromise` | | abstract specification: a pointer that moves one explicit step at a time, what it leaves is kept, what is withdrawn is neither |
| `AdapterGovernance` | `adapter_governance_services.py`, `adapter_governance_worker.py`, `adapter_deployment_authority.py`, with the parts of evaluation, suites, answers and purge that meet them | component; implements `DeploymentPromise` |
| `MCAdapterGovernance` | | evaluations and suites of the instance, symmetry |
| `AdapterPurge` | `adapter_purge.py`, the moves and unlinks of `adapter_maintenance_artifacts.py`, `adapter_lifecycle_release.py` | component |
| `MCAdapterPurge` | | the fair specification, the liveness property |
| `DocumentExtraction` | `document_*.py`, `extraction_services.py`, the worker's `queue.py`, `pipeline.py`, `storage.py` | component |
| `VectorIndexing` | `vector_index_services.py`, `index_queue.py`, `index_pipeline.py`, `qdrant_adapter.py` | EXTENDS `DocumentExtraction` |
| `RagAnswers` | `rag_answer_services.py`, `vector_retrieval.py`, `selected_chunk_reader.py` | EXTENDS `VectorIndexing`, composes all three |
| `AdapterSource` | `adapter_source_services.py`, the stages and finals of `adapter_source_artifacts.py` | component |
| `AdapterRegistry` | `adapter_registry_services.py`, `adapter_registry_queue.py`, `adapter_registry_artifacts.py` | EXTENDS `AdapterSource` |
| `AdapterReconcile` | `adapter_artifact_maintenance.py`, the moves and unlinks of `adapter_maintenance_artifacts.py` for it | EXTENDS `AdapterRegistry`, composes all three |
| `SftBuild` | `sft_services.py`, `sft_queue.py`, `sft_maintenance.py`, the directories of `sft_artifacts.py` | component |
| `AdapterEvaluation` | `adapter_evaluation_services.py` (enqueue, cancel), `adapter_evaluation_queue.py`, `adapter_evaluation_pipeline.py`, `adapter_evaluation_artifacts.py` | component |
| `MCArtifacts` | | `AdapterReconcile`, `SftBuild` and `AdapterEvaluation` side by side |
| `MCPublishing` | | `TrainingPublication` and `RagAnswers` side by side, with the symmetry of `MCTrainingPublication` |
| `TrainingPublication_proofs` | | rows: type correctness, one active attempt, history, cancellation; directories: the final path, cleanup, removals; the refinement |
| `AdapterGovernance_proofs` | | what is deployed, retained or answering stays; how the pointer moves; the refinement |
| `AdapterPurge_proofs` | | the order of a deletion, what items tell of bytes, history, stops without effect |
| `RagAnswers_proofs` | | types, bytes of extractions, points of indexes, what answers rest on |
| `AdapterReconcile_proofs` | | of `MCArtifacts`: the bundles the registry of adapters vouches for, and what a confirmed clean-up promises |
| `Artifacts_proofs` | | of `MCArtifacts`, EXTENDS the one before: the result of an evaluation that succeeded, the dataset that may be used and its source; types |

The components of Phase 11 and Phase 14.1 meet in the row of a job: `TrainingPublication` ends with a
job that succeeded and whose bundle is at its final path, which is where every
job of `TrainingJob` starts.

### 2.1 `TrainingJob`

`jobs[j]` is the row of a succeeded job: its review status and its version,
which stands for the whole row (every update increments it, and the purge
reservation and the executions' authority fingerprints freeze it).
`reservations[j]` is the job's latest purge reservation; `bytes[j]` where the
bundle is: at its final path, in the tombstone, or gone. `department` and
`admins` are what authorisation looks at. `cli[o]` is the memory of one purge
command: the phase it reached, its job and its operation.

A database transaction is one action: every one of them takes the job row
`FOR UPDATE` before it looks at anything else of the job. A purge is a sequence
of such transactions with file-system steps between them, and
`_execute_purge` is cut exactly there:

| action | code |
|---|---|
| `RegisterPurge`, `ResumePurge` | `_register_candidates` |
| `PersistStages`, `BlockStage` | `_authorize_purge_prerequisites`, removal of stages, `_persist_purge_stage_outcomes` |
| `AuthorizeFinalDeletion` | `_authorize_final_deletion` |
| `FenceBeforeBytes` | `_assert_no_active_execution_before_bytes` |
| `MoveFinal` | `_bind_final_tombstones` (rename) |
| `BindTombstone` | `_persist_tombstone_bindings` |
| `UnlinkTombstone` | `_remove_bound_tombstones` |
| `PersistPurge` | `_persist_purge_final_outcomes` |
| `PurgeStops` | any exception, or the end of the process, at any phase |

Several commands (`Operators`) may work on one operation at once: the code
resumes a registered operation without asking whether somebody else is at it.

Abstracted: one department; memberships that expire; the retention period
(always over); `purged_at`, counters and audit rows. Several jobs in one
operation, the files one by one and their unlink journal are in `TrainingPurge`
(2.9), where in turn the fences are a condition on the rows of the purge: what
they are about is here. The adapter dependency, a second fence which the purge re-checks at
the same places as the execution fence, only blocks steps and comes with the
registry.

### 2.2 `TrainingExecution`

`execs[e]` is an execution row, `attempts[e][n]` the status of its attempt row
number `n`, `wk[w]` what a worker process remembers between transactions: its
candidate, its claim, how far it processed it, the result it carries. The claim
(attempt id, worker id, token) is the attempt number, because the three are
fresh and written together; time is the number of ticks a lease has left.

| action | code |
|---|---|
| `EnqueueTrainingExecution`, `CancelTrainingExecution`, `RetryTrainingExecution` | the functions of that name in `training_execution_services.py` |
| `SelectCandidate` | the first, unlocked `SELECT` of `claim_next_training_execution` |
| `ClaimSkips`, `ClaimRefuses`, `ClaimCancels`, `ClaimRuns` | the rest of it, under the job lock: its four ways out |
| `RuntimeMissing`, `CheckClaim`, `CheckpointRaises`, `CopyInput`, `CopyFails`, `PersistInput`, `RuntimeReturns`, `CheckResult` | `process_training_execution`, cut at its transactions, at the copy and at the runtime call |
| `RenewExecutionLease` | the runtime's heartbeat |
| `Finalize` | `_finalize` |
| `WorkerCrash`, `WorkerRestart`, `Tick` | the process and the server's clock |

The claim is deliberately two actions. The code selects a candidate, then locks
the job, then reads the execution again by its id only; the state the worker saw
may be gone, and the model keeps that.

Constraints of the database are modelled where a write can run into them:
`LifecycleCheck` is `ck_training_execution_lifecycle`, `OtherActive` the partial
unique index on active executions, and the attempt number the unique constraint
of the attempts. A write they refuse is rolled back and does what the code does
then: the claim ends the worker process (`Abort`), `_finalize` returns False.

The worker of the repository runs with `runtime=None`, which is
`RuntimeMissing`; the rest of the processing is what the tests inject a runtime
for and what a later phase will use.

### 2.3 `TrainingPublication`

`job` is the row of one training job, `attempts[n]` its attempt row number `n`,
`operation` the latest reconcile operation with its items, `dir[n]` the directory
of attempt `n`: nowhere, at its private stage or at the final path, and open (the
stage marker is in it), closed (exactly the five files) or broken (something is
missing). `wk[w]` is the memory of a worker process, `rm[p]` of the removal a
worker or a reconcile process is at.

| action | code |
|---|---|
| `EnqueueTrainingJob`, `CancelTrainingJob` | the functions of that name |
| `ChangeDataset`, `LoseRequester`, `LeaseLapses` | the world: dataset archived, membership or department gone, the clock |
| `Claim`, `ClaimFails` | `claim_next`, with `_terminal_claim_failure` |
| `Guard` | the first call of every `guard()`: `_Lease`, `renew_lease` |
| `LoadEligibleDataset` ... `MarkAttemptPublished` | `process_training_job`, cut at its operations |
| `CheckRename`, `RenameStage` | `rename_preverified_stage`, cut before `os.rename` |
| `Complete` | `_complete` |
| `OperationRaises`, `FailOrCancel`, `WorkerCrash` | exceptions, `_fail_or_cancel`, end of the process |
| `OpenStage`, `EmptyStage`, `RemoveStage` | `_remove_stage` |
| `VerifyOwnedFinal`, `UnlinkFinal`, `RemoveFinal` | `_remove_final` |
| `ConfirmCleanup` | the end of `_cleanup_stale_attempt` |
| `RegisterReconcile`, `ResumeReconcile`, `PersistReconcile`, `ReconcileStops` | the reconcile command |

The cut is at every point where another process can come in between: each
transaction and each directory operation is a step, and after `Guard` a worker
may stall for any time, because nothing but the lease's end measures it and the
lease's end stops nobody. Removals go through descriptors, as the code's do: a
directory that is renamed while it is being emptied is emptied at its new place.

Abstracted: one job; a claim is its attempt number and a manifest the number of
the attempt it names; contents are whole or not whole; department and requester
are one flag and never come back, and a changed dataset never matches again; the
child's work is part of `RecordAttemptManifest`, but a child that outlives its
parent's lease may write into a stage that is being removed (`RemoveStage`).

`BundlePublication` has a job's status, its attempt number and the bundle one may
rely on. `TrainingPublication` maps to it with the bundle of the current attempt
if the job succeeded and that bundle stands whole at the final path: so the
refinement says that success comes with a whole bundle in one step, that nothing
takes the bundle away afterwards, and that no job succeeds twice or ends twice.

### 2.4 `AdapterGovernance`

`adapter[a]` is the row of an adapter, `purge[a]` its latest purge operation,
`bytes[a]` whether its registry final is in its place; `suite`, `eval` and
`review` are the rows a review rests on. `deployment` is the pointer of the
department, `retention[a]` the latest rollback retention of an adapter, `op` the
latest deployment operation, `wk[w]` the memory of a worker, `answer[x]` the
adapter a running answer froze.

| action | code |
|---|---|
| `StartReview`, `ApproveReview`, `RejectReview`, `ArchiveReview` | `start_adapter_review`, `transition_review` |
| `EnqueuePromotion`, `EnqueueRollbackToBase`, `EnqueueRollbackToAdapter`, `CancelOperation`, `ReleaseRetention` | the calls of the API, each under the department lock |
| `ClaimNextOperation`, `CheckClaim`, `VerifyRegistryFinal`, `CommitDeployment`, `RefuseDeployment`, `FailOwnedOperation` | `run_once` of the worker, cut at its transactions and around the verification of the bytes |
| `ShutDown`, `Crash`, `Lapse` | signal, end of the process, the clock |
| `EnqueueEvaluation`, `FinishEvaluation`, `StopEvaluation`, `ArchiveSuite` | the evaluation service and queue, as far as a review depends on them |
| `RegisterPurge` ... `BlockPurge` | `adapter_purge.py`, cut where its fences are asked for |
| `StartAnswer`, `EndAnswer` | `_start_run`, completion or `_fail_run` |

`FinalRefusal` keeps the order of the checks in the final transaction, because
the first one decides the error code and thereby what a failure may write
(`FailOwnedOperation` writes nothing over a claim that was lost). The versions an
operation, a review or a retention repeats change only with the purge of the
adapter or the archive of the suite, which is what `ApprovedTarget` compares.

`DeploymentPromise` has the pointer, what is kept for a rollback and what was
withdrawn; the refinement says that no interleaving of reviews, workers and purges
moves the pointer without keeping what it leaves, and withdraws nothing in use.

### 2.5 `AdapterPurge`

`adapter` is the row of the adapter and of its source, which change status in the
same transactions; `operation[n]` and `item[n][s]` are the purge operations and
their items, one per surface, with the unlink journal of the item; `surface[s]` is
where a final is (its place, the tombstone of an operation, gone) and which of its
files are left; `sibling` the tombstone namespaces with a directory nobody knows;
`dependency` the upstream dependency; `cmd[c]` the memory of one purge command.

| action | code |
|---|---|
| `Register`, `Resume` | `_register_or_resume` |
| `MarkOperationDeleting`, `PickItem`, `LoadItem` | `_mark_operation_deleting`, `_ordered_item_ids`, `_registry_completed`, `_load_item` |
| `InspectSurface`, `PersistMoveIntent`, `RecheckMove`, `MoveSurface`, `RecoverTombstone`, `BindMoveIntent` | `_execute_item` up to the bound tombstone |
| `RecordUnlinkIntent`, `UnlinkFile`, `RecordUnlink` | one round of the loop over the files |
| `RecordDirectoryIntent`, `RemoveDirectory`, `CompleteItem`, `BlockItem`, `FinalizeOperation` | the end of an item, the end of the operation |
| `StoreFails`, `CommandStops`, `SiblingAppears`, `SiblingRemoved` | an error of the file system, the end of a process, somebody else in the namespace |
| `ReleaseDependency` | `release_adapter_upstream_dependency` |

Every transaction and every system call on the file system is a step of its own,
so that two commands on one operation interleave between any two of them: the
code asks nowhere whether somebody else is at it. The branches of
`RecordUnlinkIntent` are those of the code in its order; that it refuses only a
completed item, so that a late command takes a blocked one up again, is part of
what `PurgeHistory` and `ItemsTellBytes` hold against.

### 2.6 `DocumentExtraction`, `VectorIndexing`, `RagAnswers`

The way of one document to an answer, in three modules of which each one extends
the one before, because they share rows: the document that is deleted under an
extraction, an indexing or an answer, and the extraction whose artifact both read.

`document` is the status of its row, `source` its bytes; `extraction[n]` and
`index[n]` are leased rows (status, claim, a lease that is live or not), `staging`
the claim directories, `final[n]` the artifact of extraction `n` (not there, a
part of it, whole); `points[c]` is the point of chunk `c` in Qdrant with the
attempt it is of; `answer[a]` is an answer run with what it cites. `proc[p]` is
the memory of a process, which is a request or a worker and at one thing at a
time; `faults` counts lapsed leases, ended processes, commits and clean-ups that
fail; `late` is explained below.

| action | code |
|---|---|
| `AdmitUpload`, `FinalizeUpload`, `UploadRefused` | `admit_document_upload`, `stream_upload`, `finalize_document_upload` |
| `EnqueueExtraction`, `RetryExtraction`, `EnqueueIndexing`, `RetryIndexing`, `DeleteDocument` | the calls of the API |
| `ClaimExtraction`, `CleanStaleClaim`, `StageExtraction`, `RunExtractor`, `EndExtraction` | `claim_next`, `process_job`, `requeue_owned`, `fail_owned` |
| `FinalizeExtraction`, `FinalizeRefused`, `FinalizeRolledBack`, `CompensateFinal` | `finalize_success`, whose rename is inside the transaction and whose compensation is not |
| `ClaimIndexing`, `CheckClaim`, `DeleteStaleAttempt`, `LoadArtifacts`, `UpsertStaging` | `process_index_job`, cut between each check of the claim and the mutation of Qdrant it allows |
| `ActivateAttempt`, `FinalizeIndexing`, `ActivationFails` | `finalize_success` of the index queue, cut where Qdrant has published and PostgreSQL has not committed |
| `CheckCleanup`, `DeleteAttempt`, `EndIndexing` | `_cleanup_current`, `requeue_owned`, `fail_owned` |
| `StartRun`, `SearchPublished`, `AuthorizeHits`, `LoadEvidence`, `FinalizeAnswered`, `FinalizeInsufficient`, `FailRun` | an answer, cut between its transactions and its reads of Qdrant and of the artifact |
| `ExtractionLapses`, `IndexingLapses`, `CrashInUpload`, `CrashInExtraction`, `CrashInIndexing`, `CrashInAnswer` | the clock, the end of a process |

A point has the identity of its chunk, not of its attempt, so an upsert that was
allowed while its claim was valid and arrives after it replaces the point of
whoever came next, published or not. `docs` say that a stale write "can remain
physically unpublished" (`qdrant-boundary.md:38`); what it does is unpublish the
chunk of a succeeded index row, and `_conflict_exists` then refuses to index the
document again. `late` records exactly these chunks: a point that was published
and that is overwritten by a worker whose claim is gone, since an indexing last
succeeded. A retry that overwrites with a valid claim what a failed attempt left
published adds nothing to it, and the success of an indexing empties it, because
that transaction has just counted all points. `SucceededPoints` says that this is
the *only* way in which a succeeded row loses a point. An answer does not suffer
from it (`AnswersStand`): it finds less.

Abstracted: one department with its quota; contents, vectors, scores; a batch is
one chunk; a lease is live or has lapsed; a commit that fails has not happened;
the runtime target of an answer, which is that of `AdapterGovernance`; feedback.

### 2.7 `AdapterSource`, `AdapterRegistry`, `AdapterReconcile`; `SftBuild`

An adapter comes into being in three modules: an administrator imports its
source, workers make the registry bundle from it, and a command removes what
dead attempts of both left on disk. `source` and `adapter` are rows, `att[a]` and
`manifest` those of the attempts (the import and the attempts of the registry),
`dir[a]` is the directory of each attempt: where it is (stage, final, tombstone, a
tombstone nobody owns, gone) and what is in it. `writer[a]` is the step of the process
of an attempt. `operation`, `item`, `recheck`, `quarantine`, `confirmed` are the
rows of the command, `command` is its memory.

| action | code |
|---|---|
| `RegisterImport`, `MarkValidated`, `RejectImport`, `StageImport`, `MarkStagedImport`, `PublishImport`, `MarkPublishedImport`, `CommitImport`, `AbandonImport` | `import_adapter_source`, one action per transaction and per operation on disk |
| `EnqueueAdapter`, `ClaimAdapter`, `FailClaim`, `LapseLease` | `enqueue_adapter_registry`, `claim_next_adapter`, `_terminal_claim_failure`, the clock |
| `OpenBundles`, `StageRegistry`, `MarkStaged`, `PublishRegistry`, `MarkPublished`, `FinishSuccess`, `RecordFailure` | `process_adapter_registry` |
| `RegisterReconciliation`, `ResumeReconciliation`, `StopCommand`, `FinalizeOperation` | `_register_or_resume`, `_select_candidates`, the end of the process, `_finalize_operation` |
| `StartItem`, `RecordVerified`, `AuthorizeMove`, `MoveToTombstone`, `BindTombstone`, `OpenTombstone`, `JournalEntry`, `UnlinkEntry`, `AdvanceJournal`, `JournalRemoval`, `RemoveDirectory`, `CompleteItem`, `CompleteRecheck` | `_execute_item`, cut at each transaction and each change on disk |

`SftBuild` is the same protocol in its Phase 10 form: `bundle` and `importing` are
the rows of the source, `build`, `tries`, `owned`, `cleaned` those of the dataset,
`place[n]` the directories, `checked` the workers that are behind a check of their
claim and before the operation it allows, `sweep[p]` the removal a process is
at, `reconciling` and `purging` the items of the two commands.

| action | code |
|---|---|
| `RegisterSource`, `StageSource`, `ReopenSource`, `WriteSource`, `MarkSource`, `PublishSource`, `CommitSource`, `EndImporter`, `ArchiveSource` | `import_sft_source`, which resumes where an earlier importer ended, and `archive_sft_source` |
| `EnqueueBuild`, `CancelBuild`, `ReviewBuild`, `DependOnDataset` | the API; the other side of the fence in `enqueue_adapter_registry` |
| `LeaseLapses`, `ClaimBuild`, `FailUnclaimed`, `Checkpoint`, `OpenSource`, `PrepareBuild`, `WriteBuild`, `RecordBuildManifest`, `CloseBuild`, `RenameBuild`, `CompleteBuild`, `FailBuild`, `ContinueCleanup` | `claim_next`, `process_build`, `_cleanup_stale_attempt` |
| `Look`, `Empty`, `RemoveDirectoryOf` | `_remove_stage`, `_remove_final` |
| `RegisterReconcile`, `RegisterPurge`, `StartSweep`, `AuthorizeDeletion`, `EndPurgeItem`, `EndReconcileItem`, `StopMaintenance` | `reconcile_sft_artifacts`, `purge_sft_artifacts` |

Abstracted in both: contents and digests (a directory is recognised as of its
attempt, whole or not), the limit of a command and the number of commands (one at
a time, which may stop anywhere), retention times, departments and requesters
(losing them is a failure of the step that looks).

What the code does; the models have it, and the properties are stated around it. Where
a document says otherwise it is quoted; no property depends on those two:

* An item of a final may be completed as absent, and its attempt confirmed, before
  the slow process of that attempt renames its stage; the same of a stage that an
  importer creates late. The rest is then of nobody. That is why `BundlesStand`
  speaks of what is vouched for, and of a confirmation as final, and not of an
  empty disk.
* A worker without a live claim records nothing. When its requester has lost the
  membership for good, or the job behind it was archived, the adapter is reclaimed
  for ever.
* A command that stops between the unlink of the *first* file of a tombstone and
  its record cannot resume: `open_committed_tombstone` asks for the whole tombstone,
  the item is blocked, and its tombstone keeps every attempt of that adapter from
  being confirmed. The documents call the command "crash-resumable"
  (`storage-policy.md:246-249`), and say that retries accept a missing member once
  "that exact unlink was durably recorded" (`adapter-artifact-reconciliation.md:114-116`):
  the intent is recorded, the resumption asks for the file nevertheless.
* A final that was once found to be a sibling's is skipped for good with its
  attempt (`quarantine`), although a comment calls a blocked row "immutable
  history, not a permanent denylist" (`adapter_artifact_maintenance.py:2311`) and
  `adapter-artifact-reconciliation.md:41-44` says that after a repair "a later
  authorized operation may register a fresh item for the same exact resource,
  attempt, and surface"; the way there needs two reclaims in the right order.
* SFT reconciliation checks that an import is unfinished when its items are
  registered and not when they are executed: a source that is committed in
  between loses its final. `sft-dataset-builder.md:29` registers "every possible
  exact-owned surface for each interrupted source or dataset attempt"; that an attempt
  may be interrupted no longer when its item is executed it does not say.
* A resumed import looks at its rows when it begins (`sft_services.py:556`) and again
  only after the rename. Take three importers: one is held up before it makes the stage,
  one before it opens the stage again, the third commits. When the source was archived
  and purged, the first makes a stage and the second publishes it: a final is there
  again, of nobody.
* `raced` names exactly these two, `commit` and `rename`, and `DatasetsStand` excepts
  no other.
* The final of an SFT import that never was committed has no row its deletion
  could be authorised by: its item is blocked by every reconciliation.

### 2.8 `AdapterEvaluation`

One paired evaluation: `evaluation` its row, `evalAttempt[n]` the attempts,
`result[n]` the directory of each, `evaluator[n]` the step of the worker of attempt
`n` or of its child, `removal[n]` the clean-up it is at; `eligible` stands for the
adapter and the suite. `lost[n]` records how the result of attempt `n` may have been lost.

| action | code |
|---|---|
| `EnqueueEvaluation`, `CancelEvaluation`, `EvaluationLapses`, `LoseEligibility` | the API, the clock, a purge of the adapter or the end of the suite |
| `ClaimEvaluation`, `CancelLapsed`, `FailIneligible` | `claim_next` |
| `BeginEvaluation`, `EvaluateCases`, `CheckBeforePublish`, `VerifyResult`, `FinalizeSuccess`, `GiveUp`, `RecordGivenUp` | `process_adapter_evaluation_run`, `finalize_success`, `fail_owned` |
| `CreateResultStage`, `WriteResult`, `RemoveResultMarker`, `RenameResult` | the children: `stage_run`, `publish` |
| `FindStage`, `ReadFinal`, `OpenFinal`, `EmptyResult`, `RemoveResult` | `cleanup_stage`, `cleanup_published`, `_safe_remove_tree` |

A worker that gives up removes the stage and the final of its attempt whether or
not the claim is still its own. The final is recognised by its manifest, which is
read by path, and then removed by path; in between a replacement may have
published. So a succeeded evaluation can lose its result to the clean-up of another
attempt, against what the repository says of it: this is `RemovalsKeepScope`, which
`eval_scope` shows violated (finding 6). The result can also be lost when the
answer to the commit of the success is, for the worker then cleans up its own attempt
as after any error. `lost[n]` marks the two for the attempt whose result was hit, and
`EvaluationsStand` says that there is no third: it speaks of every success whose own
result was in neither of the two ways, whatever happened to those of other attempts.
Two more observations: what `claim_next` ends by itself
(cancelled, ineligible) leaves its directories on disk, and no command of this
phase collects them; and an attempt cleans only behind the one before it, so that
the final of an older one makes every later attempt fail.

Abstracted: the cases and their scores; the children of one worker are one
sequence with it, since the parent ends a child before it goes on; what a child
does after the death of its parent is a worker that goes on without its claim.

### 2.9 `TrainingPurge`

The purge of training jobs as the disk sees it. `purge` is the last operation (the
department has one registered at a time), `reservation[j]`, `stageItem[j]` and
`journal[j]` its rows for job `j`, `purgedJobs` the jobs marked purged; `bundle[j]` is
where the files of `j` are and which of them; `touched` are the jobs whose bundle
somebody else has changed, which is all that the identities of the code (device, inode,
mode, links, size, times) are compared for; `command[c]` is the memory of one command.

| action | code |
|---|---|
| `RegisterTrainingPurge`, `ResumeTrainingPurge` | `_register_candidates` |
| `PreparePurge`, `RecordStages` | `_authorize_purge_prerequisites` with the removal of the stages, `_persist_purge_stage_outcomes` |
| `AuthorizeFinals` | `_authorize_final_deletion` |
| `FenceMove`, `LookAtFinal`, `RenameFinal`, `CaptureTombstone`, `BindFinals` | `_bind_final_tombstones`, `prepare_authorized_training_job_tombstone`, `_persist_tombstone_bindings` |
| `BeginStep`, `FenceUnlink`, `ListTombstone`, `UnlinkTombstoneFile`, `FinishUnlink` | one round of `_remove_bound_tombstones` for a file |
| `OpenTombstone`, `RemoveTombstone` | its last round, for the directory |
| `FinishPurge` | `_persist_purge_final_outcomes` |
| `CommandDies`, `TouchBundle` | the end of a process, somebody else in the file system |

A transaction is one step; a method of the artifact store is cut where it looks and
where it acts, because another command may be at the same directory: the code asks
nowhere whether one is. A transaction that is refused ends the command, an error of
the store only the work on that job (`Outcome`, `Moved`), which stays bound or
authorised for the next command.

Abstracted: the retention time, the limit and rows locked by somebody else (a
registration takes any jobs); an operation without items, which no registration of
this code makes; one item for all stages of a job, whose removal is in
`TrainingPublication`.

## 3. Runs

| run | specification, instance | states | shows |
|---|---|---|---|
| `exec_safety` | `TrainingSpec` of `MCTraining`; executions with 1 job, 2 users, 1 purge process, 1 operation, 2 workers, 1 execution with 3 attempts, leases of 2 ticks; purges with 2 jobs of 2 files, 2 commands, 2 operations, 1 mishap; symmetric in users, workers, jobs and commands | 862 161 | the invariants and action properties below |
| `exec_liveness` | `TrainingLive`; 1 user, 1 execution with 3 attempts, 2 workers, leases of 1 tick; purges with 2 jobs of 2 files, 2 commands, 1 operation, 2 mishaps | 204 324 | `TrainingSettles` |
| `exec_check` | `Spec`, violation expected | | a claim can write a row its table refuses (finding 1) |
| `exec_retry` | `Spec`, violation expected | | a cancelled execution can run (finding 2) |
| `publishing_safety` | `PublishingSpec` of `MCPublishing`; bundles with 2 workers, 1 reconcile process, 2 attempts, 2 reconcile operations; documents with 2 processes, 2 extractions and 2 indexings, 3 rows of both together, 2 chunks, 2 claims of a row, 1 answer, 2 faults; symmetric in workers and in processes | 1 469 439 | the invariants and action properties below, and the refinement |
| `pub_failure` | `Spec` of `TrainingPublication` with 1 worker, violation expected | | an error code the row refuses (finding 3) |
| `gov_safety` | `Spec` of `AdapterGovernance`; 2 adapters with one evaluation each on one suite, 2 workers, 1 answer, 3 moves of the pointer, 1 purge per adapter; symmetric in workers | 1 318 268 | the invariants and action properties below, and the refinement |
| `purge_safety` | `LiveSpec` of `AdapterPurge`; 2 commands, 2 surfaces of 2 files, 2 operations, 1 error or unknown directory, 1 stop | 366 654 | the invariants, the action property and the liveness property below |
| `purge_release` | `Spec` with 1 command, violation expected | | a purge that completes behind a blocked one never releases (finding 5) |
| `artifacts_safety` | `Spec` of `MCArtifacts`; a registry with 2 attempts, 1 importer and a dataset with 2 attempts, an evaluation with 2 attempts | 1 262 382 | the invariants below |
| `eval_scope` | `Spec` of `MCArtifacts` with 2 attempts of an evaluation and 1 of the rest, violation expected | | a clean-up removes the result of another attempt (finding 6) |
| `gov_base` | the same as `gov_safety` with 1 worker and no purge, violation expected | | a rollback to base depends on the adapter it leaves (finding 4) |

Properties of `exec_safety`:

* `TypeOK`: types, and that rows refer to rows that exist.
* `ExecutionFence`: an active execution keeps its job approved, unreserved and
  at the version it froze. Enqueue, retry, review, both archives and the purge
  would each break it with one check missing.
* `OwnerAttempt`: an attempt row runs exactly when it is the current one of an
  owned execution.
* `OneOwner`: never two workers with a valid claim on one execution.
* `OwnedBytes`: while a claim is valid the bundle is at its final path, although
  the purge checks its fence in one transaction and renames after it.
* `AttemptsAgree`: a succeeded execution is the success of its latest attempt;
  a cancelled one has no success behind it.
* `PurgePromise`: a bundle leaves its path only under a reservation that
  authorises it and that ends only with the job marked purged
  (`BytesLeaveUnderAuthority`), and a job is marked purged only when the bytes are
  gone (`PurgedIsGone`), over crashes of the purge at every step.
* `PurgeTypeOK`: types of `TrainingPurge`, and that a journal in flight has a file
  left to unlink, although two commands may finish the same one.
* `PurgeBooks`: the rows of a purge tell where every bundle is. A final is whole; a
  tombstone belongs to the registered operation and is whole under an authorised
  reservation, or bound, with exactly the files its journal tells, one in flight
  excepted; what is gone is purged, or bound with every file recorded. This is what
  a command that comes after a dead one, or beside a living one, relies on to tell
  its own missing files from somebody else's.
* `AttemptHistory`: an attempt that ended never changes, its number is never
  used again.
* `CancelNeverSucceeds`: from `cancel_requested` an execution goes to
  `cancelled` or `failed` only.

Property of `exec_liveness`:

* `TrainingSettles`: every queued or running execution comes to an end
  (`ActiveSettles`), and every reservation of a purge ends with its job purged or
  given up, unless somebody else has touched its bundle (`ReservedSettles`): a
  touched bundle never stops the other jobs of the operation. It does keep the
  operation registered, and with it every later purge of the department, until
  somebody repairs it by hand; the code means it so ("must remain fenced for
  recovery", `training_job_maintenance.py:1037-1040`).

Properties of `publishing_safety`, of the bundles of training jobs:

* `TypeOK`: types, and that a row, a worker or a removal at work names an attempt.
* `OneActiveAttempt`: an attempt row is at work exactly while it is the current
  one of a running job.
* `FinalIsRecorded`: what is at the final path belongs to an attempt whose row
  has its manifest, so that it can be proved to be that attempt's and removed.
* `CleanedNeverPublished`: behind a confirmed cleanup no whole bundle stands or
  appears at the final path, although the owner may have passed its last check.
* `OnlyGivenUpRemoved`: a whole bundle at the final path is touched only if its
  attempt was given up, whoever registered the removal and when.
* `AttemptHistory`: status, manifest and cleanup of an attempt that ended stay.
* `CancelledClaimNeverSucceeds`: a claim that is asked to stop does not succeed.
* `ImplementsPromise`: the refinement of `BundlePublication`.

Properties of `publishing_safety`, of documents:

* `KnowledgeTypeOK`: types, and that a row has a claim exactly when it was claimed.
* `ExtractedBytes`: a document that was stored has its source and a succeeded
  extraction its whole final, although a final is published before the commit
  and taken back, by its files, after the rollback.
* `SucceededPoints`: what a succeeded index row promises is published in Qdrant,
  of its attempt, for every chunk but those of `late`, whatever the attempts before
  it left there.
* `AnswersStand`: an answer is recorded only while the document is stored, and
  the attempt it cites stays succeeded, with its artifact, for good.

Properties of `gov_safety`:

* `TypeOK`: types, and that a claim is of a running operation.
* `BytesInUseStay`: what is deployed, retained or answering is validated and has
  its bytes, although the purge asks its fences before the rename and not with it.
* `ReviewsInUseStay`: the pointer and every retention name an approved review of
  their adapter.
* `ActiveOperationFits`: an active operation expects the pointer as it is, and a
  rollback to an adapter has its retention waiting: the version check of the
  final transaction is a last resort that never strikes.
* `PointerMoves`: the pointer moves with the success of one operation, not
  cancelled and by an administrator, and what it leaves is retained.
* `ImplementsPromise`: the refinement of `DeploymentPromise`.

Properties of `purge_safety`:

* `TypeOK`: types, and that a command at work has an operation that exists and a
  file that is one.
* `DeletionOrder`: no final leaves its place before an intent is recorded and the
  adapter is pending; the source leaves after the registry final is gone, over
  blocked, resumed and overlapping work on the registry item.
* `ItemsTellBytes`: what the journal counts as unlinked is gone, and no file is
  missing ahead of the one it may be in the middle of (`JournalAgrees`); a completed
  item, a purged adapter, a released dependency mean that the bytes are gone
  (`GoneForGood`).
* `CrashesNeverBlock`: commands that do not overlap and meet no error may stop
  anywhere without an item ever being blocked for it.
* `PurgeHistory`: an operation that ended and an item that completed stay so,
  however late a second command writes; no final comes back.
* `PurgeSettles`: every registered purge ends.

Properties of `artifacts_safety`:

* `ArtifactsTypeOK`: types, and that rows name attempts that exist.
* `BundlesStand`: a source that is committed, claimed or consumed and a validated
  adapter are vouched for by one attempt each, whose bundle is whole at its final
  path; an attempt that was confirmed clean has no tombstone left and never gets a
  bundle at the final path, however late its writer.
* `DatasetsStand`: a dataset under review, approved or depended on is whole at its
  final path and its source not purged; what is purged is gone. The source has the two
  exceptions of 2.7.
* `EvaluationsStand`: a succeeded evaluation was not asked to stop, is the success
  of its last attempt alone, and has its result but for the two losses of 2.8, each
  of this very result.

**Bounds** of `artifacts_safety`. The three worlds meet in single rows only and are
explored one beside the other. Two attempts of each are the slow owner and its
replacement. Three attempts of an evaluation, the third behind what the first left,
were explored in full apart (1 529 487 states), and so were three importers of a source
with one attempt of its build (1 520 634 states): with one importer, as in the run,
nobody publishes again behind a commit, and the proof is for any number. The module
states no fairness.

**Bounds** of `purge_safety`. Two files are a first and a last one; a second
operation exists only behind one that ended with blocks, a third repeats it; one
error and one stop are enough to block an item behind the back of another command
and to leave any step half done.

**Fairness** of `purge_safety` (`LiveSpec`). A command that is alive goes on; an
administrator runs the command again until the purge has ended (the documentation
names this as the recovery, and nothing else would); the unknown directory is
taken away. Nobody is obliged to register a purge.

**Bounds** of `gov_safety`. Three moves are a promotion, a replacement and a
rollback to what was replaced; the second adapter is the other side of each. A
second suite adds only a second archive; a second answer nothing that one that
ends and starts again does not; a second purge of an adapter starts at a version
nothing names any more.

**Bounds** of `publishing_safety`, of documents. Two processes put any two activities between
each other's steps; two faults are the lapse that brings a second claim and the
stop of one of the two; two chunks are a first batch and a last one; a third row
of one queue leaves one to the other. Without that bound
the same properties, and `KnowledgeInv` of section 5, were explored in full (2 230 150 states).
The module states no fairness: nothing obliges anybody to poll.

**Bounds** of `publishing_safety`. The two worlds share no row and no file, so a behaviour is
of one of them (`world`) and the run is the union of two explorations; the processes of the
one have the names of those of the other, so that one set of permutations serves both. Of
the bundles: two attempts are the slow owner and its replacement;
with the second reconcile operation both can be cleaned, or one twice. Three
attempts without reconcile were explored in full (an attempt that is left behind
twice, or a final of the first in the way of the third), and three attempts with
one operation to several million states, with the same properties. The module
states no fairness: nothing in the code obliges anybody to poll or to reconcile,
and its bounds end in states where nothing is left to do, hence no deadlock check.

**Bounds** of `exec_safety`. One job suffices because no action relates two jobs; one execution
per job because the partial index allows one active execution, and a second one
starts as the first one did (two executions were explored with one attempt each,
two purge operations with the same result). Three attempts allow a claim, a
reclaim behind the back of its worker and a third claim by retry or a second
reclaim; two workers are the slow one and its replacement. `MaxAttempts` and
`MaxExecs` disable actions at the bound; deadlock is not checked, since at the
bounds, or once the department is archived, everything may have stopped.
A behaviour is one of the executions or one of the purge in detail (`world`): they
share nothing but the fence, which is in the first, so the run is the union of two
explorations. Two jobs are one that fails and one that must not be stopped by it; two
files are a first and a last one; a second operation exists for what a first one gave
up; one mishap leaves any step half done, and the two commands cross without one.
Two mishaps were explored in full apart (1.2 million states without symmetry).

**Fairness** of `exec_liveness` (`TrainingLive`). Workers poll, so `SelectCandidate` is weakly fair; a
poll finds the job row unlocked sometimes, so `Claim` is strongly fair (a
`ClaimSkips` sends the worker back to its next poll); a worker that is alive
goes on, a runtime call ends (its parent has a deadline), an ended process is
started again, and the clock runs. `ExecutionsLive` leaves out what liveness cannot
hold against: a department or requester that loses its authority (finding 1
shows why), a living owner that misses its renewals for the whole lease, and
losing workers for ever: a worker is lost only while attempt numbers are left,
so that the bound itself never blocks a claim. Of the purge: whoever runs the
retention of a department runs it again while an operation is registered, which is
the recovery the code names and nothing else would, and a command that has not died
goes on; commands and bundles meet at most two mishaps. `CrossOnOneJob` is a bound of
this run only: two commands are at work together only while one job of the operation
is open. The safety run has them crossing on any.

## 4. Findings

1. **A refused claim of a lapsed execution cannot be committed** (`exec_check`,
   `training_execution_queue.py:245-284`, `models.py:4233-4255`). The refusal
   writes `failed` but leaves the four claim columns set, which the lifecycle
   constraint forbids for `failed`. The commit fails, the worker ends with
   `database_unavailable`, and the row is still the oldest claimable one for the
   next worker; its job stays fenced.
2. **A cancelled execution can run** (`exec_retry`,
   `training_execution_queue.py:189-230`). The candidate is selected without a
   lock and its status is not read again under the lock, so a cancellation that
   commits in between is overwritten with `running`. By the same gap a live
   claim can be taken over before its lease lapses.

3. **A failure that cannot be recorded** (`pub_failure`,
   `training_job_queue.py:480-481`, `models.py:3960-3966`). Error codes of the
   artifact store and of the contract reach the job row as they are; most are
   not in the list its constraint allows. The failure is rolled back, the job
   stays running with nobody at work, and after its lease the next worker meets
   the same cause. Codes that pass through `TrainingJobQueueError` are mapped to
   a listed one.

4. **A deployed adapter that cannot be left** (`gov_base`,
   `adapter_governance_worker.py:755-790`, `adapter-governance.md:94-96`). The
   final transaction validates the adapter the pointer leaves as if it were to be
   promoted. After the suite of its review is archived, which nothing fences, the
   runtime refuses the adapter and the worker refuses every rollback and
   promotion: the department has neither the adapter nor the base.

5. **A purge that can never be released** (`purge_release`,
   `adapter_lifecycle_release.py:163-239, 575-600`, `adapter-lifecycle-release.md:57-58`).
   The release takes an operation as proof only if its registration snapshot is
   that of a validated adapter. Behind an operation that ended with blocks the
   adapter already is pending, so the operation that then completes has another
   snapshot, and the upstream dependency stays active for good.

6. **A clean-up that leaves its scope** (`eval_scope`,
   `adapter_evaluation_artifacts.py:286-306`, `evaluation_artifacts.py:1389-1419`). "Remove
   only a failed final whose manifest names this exact attempt", says the docstring
   (line 289), and `adapter-evaluation.md:52-53, 71-73` that a failed attempt is cleaned "only
   by its exact publication attempt" and artifacts "only within their exact attempt scope".
   The manifest is read first, and the path, which all attempts share, is opened again to
   be emptied. A worker whose lease lapsed is between the two while its replacement sweeps
   that final, publishes its own and commits: the run succeeded, and what it vouches for is
   emptied by an attempt that failed.

A further divergence needs no run: `_finalize` with status `cancelled` and error
code `worker_shutdown` violates the same constraint (a cancelled row must carry
`cancelled`), so a shutdown writes nothing and the execution waits for its lease
to lapse. The model has it (`FinalCode["shutdown"]`), and `ActiveSettles` holds
because of the reclaim.

## 5. Proofs

All theorems are of the specification `Spec` of the module they are about (`PurgeSpec`
for `TrainingPurge`, `RagSpec` for `RagAnswers`), without its fairness. They hold for all finite or infinite sets
`Jobs`, `Users`, `Operators`, `Workers`, `Reconcilers`, `RetainedJobs`, `PurgeCommands`,
`Adapters`, `Suites`, `Evaluations`, `Answers`, `Commands`, `Processes` and `Importers`, and for all
bounds, that satisfy the assumptions of the modules: bounds are natural numbers, those
without which nothing could happen (`NChunks`, `Files`, ...) are positive, an evaluation
has an adapter and a suite, and the values that stand for a null are not members of the
sets they are left out of. TLC evaluates all of them in the runs. A bound is
universally quantified like any other constant, so what is proved does not depend on it.

`TrainingExecution_proofs`: `TypeCorrect`, then `FenceHolds`. `ExecutionFence`
is not inductive: for a reclaim or a retry the version an execution froze must be
the one of the job *whenever the job is still approved*, also for executions
that ended. `FrozenAuthority` says that; `FenceInv` is the conjunction.

The second part is about ownership. `OwnerInv` adds to the types that rows satisfy
the lifecycle constraint (`LegalRows`), that attempt rows exist only up to the
row's number (`KnownAttempts`) and that two workers never remember the same
attempt of the same execution (`DistinctClaims`). From it: `OneRunningAttempt`,
`OneOwnerHolds`, and, as action properties, `AttemptHistoryHolds` and
`CancelNeverSucceedsHolds`.

`AttemptsAgree` needs to know where the next number comes from: a claim writes the
statuses at the row's number plus one, a retry at the number behind it.
`NumberInv` adds to `OwnerInv`, for every execution (`NumbersFit`), that no attempt
beyond its number exists, that a queued row has not used its number yet, and that an
owned one works at it. From it: `AttemptsAgreeHolds`.

The last part is about the bundle. `BytesInv` states for every phase of every purge process
what the reservation is known to say (`Authorization`), that an unlinked
tombstone stays unlinked, and that stages come first. From it:
`BytesLeaveUnderAuthorityHolds`, `PurgedIsGoneHolds`, both in `PurgePromiseHolds`, and with `FenceInv`
`OwnedBytesHolds`: an owner implies an approved job with no reservation, hence
bytes in place.

`TrainingPurge_proofs` is about `TrainingPurge`, for any number of jobs, files,
commands and operations. `PurgeBooks` is not inductive: that a tombstone has the files
its journal tells depends on what every command still carries in its memory. The
invariant `PurgeInv` adds that the rows of a job agree (`RowsAgree`: an active
reservation is of the registered operation and of a job not purged, an authorised one
has its stages done, nothing is recorded of a tombstone before it is bound) and, for
each command and step, what it may rely on while others go on (`CommandAgrees`): the
job it works on is still authorised under its operation or already purged (`Held`);
the journal has not gone back behind what the command read (`JournalAhead`), so that it
never unlinks a file that is not in flight or recorded; one that is about to record an
unlink has it done; a job it counts as done has no bytes. All of that lasts: the
"Onward" lemmas say that a journal only moves on and an authorised job stays authorised
until it is purged,
so that a step of one command leaves what the others rely on. From it:
`PurgeTypeCorrect`, `PurgeBooksCorrect`.

The first part of `TrainingPublication_proofs` is about the rows. `OneActiveAttempt` is not
inductive: a claim adds an attempt, so attempts beyond the current one must not
exist yet (`FreshNumbers`); a cleanup writes into an attempt row, so what is
removed must be of an attempt that was given up (`RemovalsOfGivenUp`); and no two
workers remember the same attempt (`DistinctClaims`). With the types that is
`RowsInv`. `StepKinds` sorts the steps by what they do to the rows (nothing that
matters, an attempt ends with its job, an unclaimed job is enqueued or cancelled,
a claim), so that a later lemma has four cases and not one per action. From it:
`OneActiveAttemptHolds`, `AttemptHistoryHolds`, and, because only the final
transaction takes a job to succeeded, `CancelledClaimNeverSucceedsHolds`.

The second part is about the directories. The question is why a
cleanup may be confirmed although the owner it cleans up behind may still rename
its stage. `DirInv` is the answer, stated for every step of every removal
(`Achieved`): after the stage was dealt with, no whole stage of an attempt *with
a manifest* is left (`Spent`), after the final nothing whole at all (`Dead`); an
attempt without a manifest may still open a new stage but, given up, can never
record a manifest and therefore never close or rename it (`ManifestsFollowPhases`).
A removal that skips the final is one of an attempt without a manifest, or was
registered when a job had already succeeded with another's bundle
(`NoFinalNeeded`). `DirSteps` lists the five ways a step changes a directory, and
`AchievedStays` shows that none of them undoes what a removal achieved. TLC found
`DirInv` true on the instance of `publishing_safety` before it was proved. From it:
`FinalIsRecordedHolds`,
`CleanedNeverPublishedHolds`, `OnlyGivenUpRemovedHolds` and, with `SuccessStands`,
`ImplementsPromiseHolds`.

`AdapterGovernance_proofs`: `GovernanceInv` is the three invariants of the run together,
for each needs the others, with what makes them inductive. An adapter is validated exactly
while it has the version every authority names, an active purge has it pending, and no
validated one is without bytes (`PurgesAgree`): so an action that validates its target
under the lock has bytes, and a purge that starts finds the adapter neither deployed nor
retained nor answering. A retention names an evaluation, an operation has no review
exactly if its target is the base model (`ReviewsNamed`). `ActiveOperationFits` is what
lets a final transaction, of the first or of a later worker, rely on what was true when
the operation was enqueued; it lasts because everything that could move the pointer or
drop a retention is refused while an operation is active. Most steps either leave the
authority alone and continue the operation (`Continues`) or end it; only `CommitDeployment`
moves anything. From it: `UsedAdaptersKeepBytes`, `UsedReviewsStay`,
`OperationsStayCurrent`, the action property `PointerMovesHolds`, and
`ImplementsPromiseHolds`: of all steps only the final transaction, the release of a
retention and the registration of a purge map to steps of `DeploymentPromise`, all others
to stutters.

`AdapterPurge_proofs`: neither `DeletionOrder` nor `ItemsTellBytes` is inductive, because
commands overlap: what one has read another may outdate. `PurgeInv` states what the rows
of an operation say of the bytes whatever the commands do (`Items`: an item that is bound
has its tombstone or nothing, the journal counts only files that are gone, and a file that
is missing beyond it is the one in flight) and what the memory of each command may rely on
(`CommandsFit`: at work on the source, the registry is completed; about to record a file,
it is gone; about to complete, the directory is). The latter is kept because the books move
one way: `Forward` says that no step unbinds an item, reopens a completed one, takes the
journal back or brings a file back, and `Onward` that it is therefore enough to look at the
one command that moves. From it: `DeletionOrderHolds`, `ItemsTellBytesHolds`, and
`PurgeHistoryHolds`. `CrashesNeverBlockHolds` is about commands that do not overlap on a
file system that works (`~disturbed`). Its invariant `Calm` says for each item and phase
where the bytes are *exactly*, so that every check a resumed command makes after a stop
finds what the journal allows for.

`RagAnswers_proofs` is about the three modules of the knowledge base at once, as their
`Next` is. `KnowledgeInv` has four parts. `Typed` has the lease protocol in it: a row has
the last claim given out or none, and a process remembers one that was given out. `BytesInv`
says why nobody takes a file away that a row promises: an upload that may still be taken
back is alone and the document not there yet (`UploadsAlone`); a worker that takes a final
back without a lock or a claim remembers an extraction that is not succeeded, whose final is
there, so that no other worker can publish over it and succeed, and it is the only one to do
so (`CompensationsAlone`). `ClaimsInv` says that two workers never have the same claim
(`DistinctAttempts`), that nobody is at work any more on the attempt of a succeeded row
(`WorkAhead`), that from activation to final transaction the lock keeps the row as its
worker found it (`LockHeld`), that at most one indexing is queued, at work or done (`OneIndexing`),
and `SucceededPoints`: a worker that overwrites published points with a claim that is valid
is then the only one that could have a claim, so that no row has succeeded. `Answered` says
that what an answer cites was published by succeeded rows. To keep it readable the steps of all
processes are sorted by what they do: to a row (`RowStep`: a succeeded row never changes), to
the memory of a process (`ProcessStep`), to points (`PointStep`), finals, uploads and
answers; each part of the invariant then has a handful of cases and not one per action.
TLC found `KnowledgeInv` true on the instance of `publishing_safety`.
From it: `KnowledgeTyped`, `ExtractedBytesHolds`, `SucceededPointsHolds`, `AnswersStandHolds`.

`AdapterReconcile_proofs` and `Artifacts_proofs` are about the three parts of `MCArtifacts`,
each with an invariant of its own, for `Next` is a step of one of them.

The first is about the import of a source, the registry and reconciliation. `BundlesStand`
is not inductive: it does not say why a writer that was given up long ago cannot make a
bundle appear behind a confirmed clean-up. `BundlesInv` does. A directory that is not made
yet has a writer that has not come to it (`WritersFit`). What is confirmed is over, has no
active item, and where its directory is not gone its writer is not at a step from the record
of its manifest on (`ConfirmedFit`); it never gets there, for `MarkStagedImport` and
`MarkStaged` are steps of an attempt that is not over. What a slow writer may still do is then
to make a stage, which `BundlesStand` allows. A writer from that step on has made its
directory, so that its attempt is confirmed only when the directory is gone. A final has
items only of an attempt with a manifest (`FinalsFit`), and a command at an item is at an
active one of an attempt that is over (`CommandFits`): therefore it touches neither what
the registry vouches for nor what is confirmed, although `MoveToTombstone`, `UnlinkEntry` and
`RemoveDirectory` look at no row. `ImportRows` and `AdapterRows` relate the rows of a source and
an adapter to those of their attempts. Three lemmas carry most of the cases: `WritingKeeps` for
the steps on disk, `RowsMoveKeep` for transactions, `CommandMoves` for the steps of an item.
From it: `BundlesStandHolds`. TLC found `BundlesInv` true with two attempts before it was
proved.

`EvaluationInv` adds to `EvaluationsStand`
what each removal is about, and for every attempt apart how its result may be gone (`lost[n]`):
a worker that gives up removes its own attempt, one that
replaced another an earlier attempt, and what it holds open is of that attempt unless
something else came to the final path since (`taken`). Success is then out of reach: its
attempt is the last one and its worker done. One lemma, `WorkerKeeps`, has all steps of a
worker that leave the rows alone; the claim, the final transaction and the clean-up of what
an earlier attempt left are on their own.
`SftInv` relates four things that the code never changes together. `BuildFits` is the life
of a build: given up is behind, success is of the last attempt and its worker done. `ItemsFit`
and `SourceFits` say that a maintenance item is of something given up or no longer wanted
*as long as it is registered*, which is what `_finalize_*` and the reservations of review
and registration are for. `SweepsFit` says what a removal in progress is about: a worker's,
an earlier attempt; the command's, what it has an item for; and that a final it purges is as
it found it. From these `SweptIsDisposable`: whatever anybody is about to remove is the
directory of an unfinished import, of an attempt given up or earlier, or of a final with a
purge item, and none of these is the directory of a dataset that may be used
(`RemovingKeeps`). The proof found what TLC on one importer could not: the last clause of
`DatasetsStand` first held of the source without exception, was not inductive in the steps
of an importer, and TLC with three importers showed the behaviour of 2.7. From the two
invariants: `EvaluationsStandHolds` and `DatasetsStandHolds`, and from all three
`ArtifactsTypeHolds`. TLC found `EvaluationInv` true
with three attempts, `SftInv` with three importers and with two attempts, before they were
proved.

Every invariant and every safety property of a passing run is a theorem. Only
model-checked: `TrainingSettles` and `PurgeSettles` (liveness is beyond the prover), and
the violations.

## 6. What is left

In the order in which it would be taken up:

1. That `TrainingPurge` implements the purge of `TrainingJob` job by job. The two name
   their steps alike; what is missing is the mapping of a command with several jobs to
   one `cli` per job.
2. Evaluation runs of Phase 9 (`evaluation_queue.py`), whose lease protocol is the
   one of `AdapterEvaluation` on a base model.

Not modelled, and why:

* **Feedback and its purge**: rows of one table under one lock each; no step is left
  between two of them.
* **Model runtimes**: child processes behind a protocol of bytes; what the rest of
  the system sees of them (an answer, an error, a deadline that passed) is in the
  modules that call them.
* **HTTP, settings, audit, web application, migrations**: validation, presentation
  and schema. The constraints of the schema that decide something are in the modules
  whose rows they guard.
* **Contracts** (adapter configuration, tensors, manifests, metrics): pure checks of
  data; the modules have their verdict.
