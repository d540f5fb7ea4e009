------------------------- MODULE TrainingExecution -------------------------
(***************************************************************************)
(* Phase 14.1: supervised executions of an approved training job.  Admins  *)
(* enqueue, cancel and retry executions over the API; worker processes     *)
(* claim them under a lease, snapshot the job's published bundle, call a   *)
(* runtime and record the result.  PostgreSQL is the only shared state     *)
(* besides the bundle's bytes; every API and worker transaction locks the  *)
(* job row first, so each is one atomic step, with one exception that the  *)
(* model keeps: a worker selects its candidate WITHOUT a lock, in the      *)
(* statement before the one that locks the job, and the state it saw may   *)
(* be gone when it gets the lock.                                          *)
(*                                                                         *)
(* Abstractions: a claim (attempt id, worker id and token, all fresh and   *)
(* always set together) is the number of its attempt; time is the number   *)
(* of ticks a lease has left; a fingerprint of the job row is its version, *)
(* which every change of the row increments; error codes are told apart as *)
(* far as the row constraint tells them apart.  The optimistic version a   *)
(* client sends only rejects requests, and some client holds the right     *)
(* one, so it is left out.                                                 *)
(***************************************************************************)
EXTENDS TrainingJob

CONSTANTS
    Workers,        \* worker processes
    MaxExecs,       \* bound: executions ever enqueued
    MaxAttempts,    \* bound: attempt numbers of one execution
    LeaseTicks      \* ticks a fresh or renewed lease has left

ASSUME ExecutionAssumption ==
    /\ MaxExecs \in Nat
    /\ MaxAttempts \in Nat \ {0}
    /\ LeaseTicks \in Nat \ {0}

VARIABLES
    execs,          \* execution rows, in order of creation
    attempts,       \* attempt rows: their status, by execution and number
    wk              \* the memory of each worker process

execVars == <<execs, attempts, wk>>
vars == <<department, admins, jobs, reservations, bytes, cli, execs, attempts, wk>>

Execs == 1..MaxExecs
Numbers == 1..MaxAttempts

ActiveStatus == {"queued", "running", "cancel_requested"}
OwnedStatus == {"running", "cancel_requested"}
ExecStatus == ActiveStatus \union {"absent", "succeeded", "failed", "cancelled"}
AttemptStatus == {"none", "running", "succeeded", "failed", "cancelled", "reclaimed"}

\* What a worker hands to _finalize: "shutdown" is a cancellation with an
\* error code other than "cancelled".
Results == {"succeeded", "failed", "cancelled", "shutdown"}
FinalStatus == [succeeded |-> "succeeded", failed |-> "failed",
                cancelled |-> "cancelled", shutdown |-> "cancelled"]
FinalCode == [succeeded |-> "none", failed |-> "other",
              cancelled |-> "cancelled", shutdown |-> "other"]

WorkingPhase == {"claimed", "staging", "copied", "running", "returned", "finishing"}
WorkerPhase == WorkingPhase \union {"idle", "picked", "aborted"}

ExecRow == [status : ExecStatus,
            job : Jobs \union {"none"},
            requester : Users \union {"none"},
            authority : Nat,                    \* version of the job it froze
            number : Nat,                       \* current_attempt_number
            current : Nat,                      \* current attempt, 0 for NULL
            lease : Nat,                        \* ticks left, 0 when lapsed or NULL
            cancelAt : BOOLEAN,                 \* cancellation_requested_at is set
            error : {"none", "cancelled", "other"}]

Worker == [phase : WorkerPhase,
           exec : Nat,
           attempt : Nat,
           result : Results \union {"none", "check", "unique"}]

Absent == [status |-> "absent", job |-> "none", requester |-> "none", authority |-> 0,
           number |-> 0, current |-> 0, lease |-> 0, cancelAt |-> FALSE, error |-> "none"]

\* What a worker remembers: nothing, its candidate, or its claim.
Idle == [phase |-> "idle", exec |-> 0, attempt |-> 0, result |-> "none"]
Picked(e) == [phase |-> "picked", exec |-> e, attempt |-> 0, result |-> "none"]
Claimed(e, n) == [phase |-> "claimed", exec |-> e, attempt |-> n, result |-> "none"]

TypeOK ==
    /\ JobTypeOK
    /\ execs \in [Execs -> ExecRow]
    /\ attempts \in [Execs -> [Numbers -> AttemptStatus]]
    /\ wk \in [Workers -> Worker]
    /\ \A e \in Execs : execs[e].status # "absent" =>
         /\ execs[e].job \in Jobs
         /\ execs[e].requester \in Users
         /\ execs[e].number \in Numbers
    /\ \A e \in Execs : execs[e].current \in Numbers \union {0}
    /\ \A w \in Workers : wk[w].phase \notin {"idle"} =>
         wk[w].exec \in Execs /\ execs[wk[w].exec].status # "absent"
    /\ \A w \in Workers : wk[w].phase \in WorkingPhase => wk[w].attempt \in Numbers
    /\ \A w \in Workers : wk[w].phase \in {"returned", "finishing"} => wk[w].result \in Results

Init ==
    /\ JobInit
    /\ execs = [e \in Execs |-> Absent]
    /\ attempts = [e \in Execs |-> [n \in Numbers |-> "none"]]
    /\ wk = [w \in Workers |-> Idle]

(***************************************************************************)
(* What the rows say.                                                      *)
(***************************************************************************)

Active(e) == execs[e].status \in ActiveStatus

\* Mutant: an execution asked to stop does not fence any more.
ActiveJobsIgnoresStopping ==
    {j \in Jobs : \E e \in Execs :
        execs[e].status \in {"queued", "running"} /\ execs[e].job = j}

\* has_active_training_execution: the fence the purge and the archive read.
ActiveJobs == {j \in Jobs : \E e \in Execs : Active(e) /\ execs[e].job = j}

\* The partial unique index: one active execution for each job and profile.
OtherActive(e) ==
    \E f \in Execs \ {e} : Active(f) /\ execs[f].job = execs[e].job

\* CHECK ck_training_execution_lifecycle: a transaction that would leave a row
\* outside of it is rolled back by the database.
LifecycleCheck(r) ==
    \/ /\ r.status = "queued"
       /\ r.current = 0 /\ ~r.cancelAt /\ r.error = "none"
    \/ /\ r.status \in OwnedStatus
       /\ r.current # 0 /\ r.error = "none"
       /\ r.cancelAt <=> r.status = "cancel_requested"
    \/ /\ r.status = "succeeded"
       /\ r.current = 0 /\ r.error = "none"
    \/ /\ r.status = "failed"
       /\ r.current = 0 /\ r.error # "none"
    \/ /\ r.status = "cancelled"
       /\ r.current = 0 /\ r.error = "cancelled"

\* _require_phase11_authority, with the purge fence it ends in.
Phase11Authority(j) == jobs[j].review = "approved" /\ ~PurgeActive(j)

\* The job is still the one the execution froze.
AuthorityHolds(r) ==
    jobs[r.job].review = "approved" /\ r.authority = jobs[r.job].version

\* Mutant: a claim is any live claim on the execution.
ValidClaimOfAnybody(e, n) ==
    execs[e].status \in OwnedStatus /\ execs[e].lease > 0 /\ AuthorityHolds(execs[e])

\* _valid_claim: what every later transaction of a worker checks again.
ValidClaim(e, n) ==
    /\ execs[e].status \in OwnedStatus
    /\ execs[e].current = n
    /\ attempts[e][n] = "running"
    /\ execs[e].lease > 0
    /\ AuthorityHolds(execs[e])

Owns(w) == wk[w].phase \in WorkingPhase /\ ValidClaim(wk[w].exec, wk[w].attempt)

SetExec(e, row) == execs' = [execs EXCEPT ![e] = row]
SetPhase(w, p) == wk' = [wk EXCEPT ![w].phase = p]

(***************************************************************************)
(* The API.                                                                *)
(***************************************************************************)

NextExec(e) == execs[e].status = "absent" /\ \A f \in 1..(e - 1) : execs[f].status # "absent"

\* Mutant: attempts are numbered from zero.
QueuedRowFromZero(u, j) ==
    [status |-> "queued", job |-> j, requester |-> u, authority |-> jobs[j].version,
     number |-> 0, current |-> 0, lease |-> 0, cancelAt |-> FALSE, error |-> "none"]

QueuedRow(u, j) ==
    [status |-> "queued", job |-> j, requester |-> u, authority |-> jobs[j].version,
     number |-> 1, current |-> 0, lease |-> 0, cancelAt |-> FALSE, error |-> "none"]

EnqueueTrainingExecution(u, j) ==
    /\ Authorized /\ u \in admins
    /\ Phase11Authority(j)
    /\ j \notin ActiveJobs
    /\ \E e \in Execs :
         /\ NextExec(e)
         /\ SetExec(e, QueuedRow(u, j))
    /\ UNCHANGED <<jobVars, attempts, wk>>

\* A queued execution is cancelled at once, a running one is asked to stop.
CancelTrainingExecution(e) ==
    LET r == execs[e] IN
    /\ Authorized
    /\ r.status \in {"queued", "running"}
    /\ ~PurgeActive(r.job)
    /\ SetExec(e, IF r.status = "queued"
                  THEN [r EXCEPT !.status = "cancelled", !.error = "cancelled"]
                  ELSE [r EXCEPT !.status = "cancel_requested", !.cancelAt = TRUE])
    /\ UNCHANGED <<jobVars, attempts, wk>>

RetriedRow(r) ==
    [r EXCEPT !.status = "queued", !.number = @ + 1, !.current = 0, !.lease = 0,
              !.cancelAt = FALSE, !.error = "none"]

RetryTrainingExecution(e) ==
    LET r == execs[e] IN
    /\ Authorized
    /\ r.status \in {"failed", "cancelled"}
    /\ Phase11Authority(r.job)
    /\ ~OtherActive(e)
    /\ r.number < MaxAttempts
    /\ SetExec(e, RetriedRow(r))
    /\ UNCHANGED <<jobVars, attempts, wk>>

(***************************************************************************)
(* Claiming.                                                               *)
(***************************************************************************)

\* Mutant: a lapsed claim is left to its owner.
ClaimableIfQueued(e) == execs[e].status = "queued"

Claimable(e) ==
    \/ execs[e].status = "queued"
    \/ execs[e].status \in OwnedStatus /\ execs[e].lease = 0

\* The oldest claimable execution, read without a lock.
SelectCandidate(w) ==
    /\ wk[w].phase = "idle"
    /\ \E e \in Execs :
         /\ Claimable(e)
         /\ \A f \in Execs : Claimable(f) => e <= f
         /\ wk' = [wk EXCEPT ![w] = Picked(e)]
    /\ UNCHANGED <<jobVars, execs, attempts>>

\* Nothing is claimed: the job row is locked by another transaction
\* (SKIP LOCKED), or an active purge fences the job.
ClaimSkips(w) ==
    /\ wk[w].phase = "picked"
    /\ wk' = [wk EXCEPT ![w] = Idle]
    /\ UNCHANGED <<jobVars, execs, attempts>>

\* From here on the worker holds the job and the execution row.
RequesterHolds(r) == department = "active" /\ r.requester \in admins

ClaimAllowed(r) == RequesterHolds(r) /\ ~PurgeActive(r.job) /\ AuthorityHolds(r)

ClaimRefused(r) ==
    \/ ~RequesterHolds(r)
    \/ ~PurgeActive(r.job) /\ ~AuthorityHolds(r)

\* The transaction is rolled back and the worker process ends with
\* TrainingExecutionQueueError; which constraint did it stays on record.
Abort(w, constraint) ==
    /\ wk' = [wk EXCEPT ![w].phase = "aborted", ![w].result = constraint]
    /\ UNCHANGED <<execs, attempts>>

\* The requester, the department or the frozen authority is gone.
RefusedRow(r) == [r EXCEPT !.status = "failed", !.error = "other"]

ClaimRefuses(w) ==
    LET e == wk[w].exec
        row == RefusedRow(execs[e]) IN
    /\ wk[w].phase = "picked"
    /\ ClaimRefused(execs[e])
    /\ IF LifecycleCheck(row)
       THEN /\ SetExec(e, row)
            /\ wk' = [wk EXCEPT ![w] = Idle]
            /\ UNCHANGED attempts
       ELSE Abort(w, "check")
    /\ UNCHANGED jobVars

\* Mutant: the attempt of the lapsed claim is left running.
ReclaimedNothing(e) == attempts[e]

\* The attempt rows of e once its current attempt, if it runs, is reclaimed.
Reclaimed(e) ==
    [n \in Numbers |->
        IF n = execs[e].current /\ execs[e].status \in OwnedStatus
           /\ attempts[e][n] = "running"
        THEN "reclaimed" ELSE attempts[e][n]]

\* A lapsed claim whose cancellation was requested is cancelled by the reclaim.
ClaimCancels(w) ==
    LET e == wk[w].exec IN
    /\ wk[w].phase = "picked"
    /\ ClaimAllowed(execs[e])
    /\ execs[e].status = "cancel_requested"
    /\ SetExec(e, [execs[e] EXCEPT !.status = "cancelled", !.error = "cancelled",
                                   !.current = 0, !.lease = 0])
    /\ attempts' = [attempts EXCEPT ![e] = Reclaimed(e)]
    /\ wk' = [wk EXCEPT ![w] = Idle]
    /\ UNCHANGED jobVars

ClaimNumber(r) == IF r.current = 0 THEN r.number ELSE r.number + 1

ClaimedRow(r) ==
    [r EXCEPT !.status = "running", !.number = ClaimNumber(r), !.current = ClaimNumber(r),
              !.lease = LeaseTicks, !.error = "none"]

\* The status of the execution is not looked at again after the lock, except
\* for "cancel_requested": whatever it is by now, the row becomes running
\* unless a constraint of the database is in the way.
ClaimRuns(w) ==
    LET e == wk[w].exec
        n == ClaimNumber(execs[e]) IN
    /\ wk[w].phase = "picked"
    /\ ClaimAllowed(execs[e])
    /\ execs[e].status # "cancel_requested"
    /\ n <= MaxAttempts
    /\ IF attempts[e][n] # "none" \/ OtherActive(e) \/ ~LifecycleCheck(ClaimedRow(execs[e]))
       THEN Abort(w, "unique")
       ELSE /\ SetExec(e, ClaimedRow(execs[e]))
            /\ attempts' = [attempts EXCEPT ![e] = [Reclaimed(e) EXCEPT ![n] = "running"]]
            /\ wk' = [wk EXCEPT ![w] = Claimed(e, n)]
    /\ UNCHANGED jobVars

(***************************************************************************)
(* Processing a claim.                                                     *)
(***************************************************************************)

\* Hand a result to _finalize.
Finish(w, result) == wk' = [wk EXCEPT ![w].phase = "finishing", ![w].result = result]

\* Without a runtime, the production default, nothing is attempted.
RuntimeMissing(w) ==
    /\ wk[w].phase = "claimed"
    /\ Finish(w, "failed")
    /\ UNCHANGED <<jobVars, execs, attempts>>

\* A checkpoint lets the worker pass while it owns its claim ...
CheckClaim(w) ==
    /\ wk[w].phase = "claimed"
    /\ Owns(w)
    /\ SetPhase(w, "staging")
    /\ UNCHANGED <<jobVars, execs, attempts>>

\* ... and otherwise ends the attempt: lost claim or deadline, or shutdown.
CheckpointRaises(w) ==
    /\ wk[w].phase \in {"claimed", "copied", "returned"}
    /\ \E result \in {"failed", "shutdown"} : Finish(w, result)
    /\ UNCHANGED <<jobVars, execs, attempts>>

\* The five files are copied from the final path of the job.
CopyInput(w) ==
    /\ wk[w].phase = "staging"
    /\ bytes[execs[wk[w].exec].job] = "final"
    /\ SetPhase(w, "copied")
    /\ UNCHANGED <<jobVars, execs, attempts>>

CopyFails(w) ==
    /\ wk[w].phase = "staging"
    /\ Finish(w, "failed")
    /\ UNCHANGED <<jobVars, execs, attempts>>

\* The input fingerprint is recorded under the claim and the runtime starts.
PersistInput(w) ==
    /\ wk[w].phase = "copied"
    /\ Owns(w)
    /\ SetPhase(w, "running")
    /\ UNCHANGED <<jobVars, execs, attempts>>

RenewExecutionLease(w) ==
    LET e == wk[w].exec IN
    /\ wk[w].phase = "running"
    /\ Owns(w)
    /\ SetExec(e, [execs[e] EXCEPT !.lease = LeaseTicks])
    /\ UNCHANGED <<jobVars, attempts, wk>>

\* A result the validation refuses ends the attempt without a checkpoint.
RuntimeReturns(w) ==
    /\ wk[w].phase = "running"
    /\ \/ \E result \in Results :
            wk' = [wk EXCEPT ![w].phase = "returned", ![w].result = result]
       \/ Finish(w, "failed")
    /\ UNCHANGED <<jobVars, execs, attempts>>

CheckResult(w) ==
    /\ wk[w].phase = "returned"
    /\ Owns(w)
    /\ SetPhase(w, "finishing")
    /\ UNCHANGED <<jobVars, execs, attempts>>

\* Mutant: the result stands whatever was requested meanwhile.
FinalResultUnchanged(r, result) == result

\* A success that meets a requested cancellation becomes the cancellation.
FinalResult(r, result) ==
    IF r.status = "cancel_requested" /\ result = "succeeded" THEN "cancelled" ELSE result

FinalRow(r, result) ==
    [r EXCEPT !.status = FinalStatus[FinalResult(r, result)],
              !.error = FinalCode[FinalResult(r, result)],
              !.current = 0, !.lease = 0]

\* Mutant: the attempt keeps the result of the runtime.
FinalAttemptFromResult(row, result) == FinalStatus[result]

\* The attempt ends as the execution does.
FinalAttempt(row, result) == row.status

\* _finalize: nothing is written when the claim is lost or when the row would
\* violate the constraint; the worker goes on to its next poll either way.
Finalize(w) ==
    LET e == wk[w].exec
        row == FinalRow(execs[e], wk[w].result) IN
    /\ wk[w].phase = "finishing"
    /\ IF Owns(w) /\ LifecycleCheck(row)
       THEN /\ SetExec(e, row)
            /\ attempts' = [attempts EXCEPT ![e][wk[w].attempt] =
                               FinalAttempt(row, wk[w].result)]
       ELSE UNCHANGED <<execs, attempts>>
    /\ wk' = [wk EXCEPT ![w] = Idle]
    /\ UNCHANGED jobVars

\* The process dies and a new one is started; an aborted one ended by itself.
WorkerCrash(w) ==
    /\ wk[w].phase \notin {"idle", "aborted"}
    /\ wk' = [wk EXCEPT ![w] = Idle]
    /\ UNCHANGED <<jobVars, execs, attempts>>

WorkerRestart(w) ==
    /\ wk[w].phase = "aborted"
    /\ wk' = [wk EXCEPT ![w] = Idle]
    /\ UNCHANGED <<jobVars, execs, attempts>>

\* Server time passes for every lease.
Tick ==
    /\ \E e \in Execs : execs[e].lease > 0
    /\ execs' = [e \in Execs |->
                   IF execs[e].lease > 0 THEN [execs[e] EXCEPT !.lease = @ - 1] ELSE execs[e]]
    /\ UNCHANGED <<jobVars, attempts, wk>>

(***************************************************************************)
(* The specification.                                                      *)
(***************************************************************************)

Api ==
    \/ \E u \in Users, j \in Jobs : EnqueueTrainingExecution(u, j)
    \/ \E e \in Execs : CancelTrainingExecution(e) \/ RetryTrainingExecution(e)

Claim(w) == ClaimRefuses(w) \/ ClaimCancels(w) \/ ClaimRuns(w)

Process(w) ==
    \/ RuntimeMissing(w) \/ CheckClaim(w) \/ CheckpointRaises(w)
    \/ CopyInput(w) \/ CopyFails(w) \/ PersistInput(w)
    \/ RuntimeReturns(w) \/ CheckResult(w) \/ Finalize(w)

Next ==
    \/ JobNext(ActiveJobs) /\ UNCHANGED execVars
    \/ Api
    \/ \E w \in Workers :
         \/ SelectCandidate(w) \/ ClaimSkips(w) \/ Claim(w)
         \/ Process(w) \/ RenewExecutionLease(w)
         \/ WorkerCrash(w) \/ WorkerRestart(w)
    \/ Tick

Spec == Init /\ [][Next]_vars

(***************************************************************************)
(* Safety.                                                                 *)
(***************************************************************************)

\* Queued and running executions fence the job: it stays approved, unpurged
\* and exactly the version they froze, and no purge is reserved for it.
ExecutionFence ==
    \A e \in Execs : Active(e) =>
        /\ Phase11Authority(execs[e].job)
        /\ execs[e].authority = jobs[execs[e].job].version

\* The attempt history and the execution row agree on who runs: an attempt is
\* running exactly when it is the current one of an owned execution, so a
\* crash, a reclaim or a refused write never leaves a second running attempt.
OwnerAttempt ==
    \A e \in Execs, n \in Numbers :
        attempts[e][n] = "running" <=>
            execs[e].status \in OwnedStatus /\ execs[e].current = n

\* Two workers never hold a valid claim on one execution, however often it
\* was reclaimed behind the back of a slow worker.
OneOwner ==
    \A v, w \in Workers :
        v # w /\ Owns(v) /\ Owns(w) => wk[v].exec # wk[w].exec

\* While a worker owns its claim the bundle it reads is in place: the purge,
\* which checks its fence before it touches the bytes, cannot run under it.
OwnedBytes ==
    \A w \in Workers : Owns(w) => bytes[execs[wk[w].exec].job] = "final"

\* A succeeded execution is the success of its latest attempt, and the latest
\* attempt of a cancelled one did not succeed behind the cancellation.
AttemptsAgree ==
    \A e \in Execs :
        /\ execs[e].status = "succeeded" => attempts[e][execs[e].number] = "succeeded"
        /\ execs[e].status = "cancelled" =>
             attempts[e][execs[e].number] \in {"none", "cancelled", "reclaimed"}

\* The history of attempts is immutable: an attempt that ended stays as it is
\* and its number is never used again, whatever is retried or reclaimed.
AttemptHistory ==
    [][\A e \in Execs, n \in Numbers :
         attempts[e][n] \notin {"none", "running"} => attempts'[e][n] = attempts[e][n]]_vars

\* An execution asked to stop never becomes succeeded, even when the runtime
\* had succeeded before the request was seen.
CancelNeverSucceeds ==
    [][\A e \in Execs : execs[e].status = "cancel_requested" =>
         execs'[e].status \in {"cancel_requested", "cancelled", "failed"}]_vars

(***************************************************************************)
(* Statements of the repository that the code does not keep.               *)
(***************************************************************************)

\* Every row a claim writes satisfies the lifecycle constraint of its table:
\* no claim is rolled back by it.
ClaimRowsAreLegal == \A w \in Workers : wk[w].result # "check"

\* There is no automatic retry: a cancelled execution stays cancelled until
\* somebody explicitly queues it again.
NoAutomaticRetry ==
    [][\A e \in Execs : execs[e].status = "cancelled" =>
         execs'[e].status \in {"cancelled", "queued"}]_vars
=============================================================================
