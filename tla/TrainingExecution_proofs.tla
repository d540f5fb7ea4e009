---------------------- MODULE TrainingExecution_proofs ----------------------
(***************************************************************************)
(* Theorems about TrainingExecution and the jobs it runs, for every value  *)
(* of their constants: types and the fence, ownership, the purge.          *)
(***************************************************************************)
EXTENDS TrainingExecution, TLAPS

(***************************************************************************)
(* Type correctness.                                                       *)
(***************************************************************************)

LEMMA FinalTypes ==
    ASSUME NEW result \in Results
    PROVE  /\ FinalStatus[result] \in {"succeeded", "failed", "cancelled"}
           /\ FinalCode[result] \in {"none", "cancelled", "other"}
BY DEF Results, FinalStatus, FinalCode

LEMMA AbsentType == Absent \in ExecRow
BY DEF Absent, ExecRow, ExecStatus, ActiveStatus

LEMMA IdleType == Idle \in Worker
BY DEF Idle, Worker, WorkerPhase

LEMMA IdleCliType == IdleCli \in Cli
BY DEF IdleCli, Cli, CliPhase

LEMMA InitTypeOK == Init => TypeOK
<1> USE ExecutionAssumption, AbsentType, IdleType, IdleCliType
<1> SUFFICES ASSUME Init PROVE TypeOK
    OBVIOUS
<1>1. JobTypeOK
    BY DEF Init, JobInit, JobTypeOK, JobRow, Reservation, NoReservation, ReviewStatus,
           ReservationStatus, IdleCli
<1>2. /\ execs \in [Execs -> ExecRow]
      /\ attempts \in [Execs -> [Numbers -> AttemptStatus]]
      /\ wk \in [Workers -> Worker]
    BY DEF Init, AttemptStatus
<1>3. QED
    BY <1>1, <1>2 DEF TypeOK, Init, Absent, Idle, WorkingPhase

LEMMA SetReviewType ==
    ASSUME JobTypeOK, NEW j \in Jobs, NEW status \in ReviewStatus, SetReview(j, status)
    PROVE  jobs' \in [Jobs -> JobRow]
BY DEF JobTypeOK, SetReview, JobRow

LEMMA SetReservationType ==
    ASSUME JobTypeOK, NEW j \in Jobs, NEW status \in ReservationStatus,
           SetReservation(j, status)
    PROVE  reservations' \in [Jobs -> Reservation]
BY DEF JobTypeOK, SetReservation, Reservation

LEMMA AdvanceType ==
    ASSUME JobTypeOK, NEW o \in Operators, cli[o].phase # "idle",
           NEW p \in CliPhase, Advance(o, p)
    PROVE  /\ cli' \in [Operators -> Cli]
           /\ \A q \in Operators : cli'[q].phase # "idle" => cli'[q].job \in Jobs
BY DEF JobTypeOK, Advance, Cli

LEMMA LeaveType ==
    ASSUME JobTypeOK, NEW o \in Operators, Leave(o)
    PROVE  /\ cli' \in [Operators -> Cli]
           /\ \A q \in Operators : cli'[q].phase # "idle" => cli'[q].job \in Jobs
BY IdleCliType DEF JobTypeOK, Leave, IdleCli

\* Every step of the job and its purge preserves the types of its state.
LEMMA JobTypePreserved ==
    ASSUME JobTypeOK, NEW active, JobNext(active)
    PROVE  JobTypeOK'
<1> USE DEF JobTypeOK
<1>1. CASE ArchiveDepartment
    BY <1>1 DEF ArchiveDepartment
<1>2. CASE \E u \in Users : RevokeAdmin(u) \/ ReinstateAdmin(u)
    BY <1>2 DEF RevokeAdmin, ReinstateAdmin
<1>3. ASSUME NEW j \in Jobs, NEW d \in {"approve", "reject", "archive"},
             ReviewTrainingJob(j, d, active)
      PROVE  JobTypeOK'
    <2>1. ReviewTransition(d).to \in ReviewStatus
        BY DEF ReviewTransition, ReviewStatus
    <2>2. QED
        BY <1>3, <2>1, SetReviewType DEF ReviewTrainingJob
<1>4. ASSUME NEW j \in Jobs, ArchiveTrainingJob(j, active)
      PROVE  JobTypeOK'
    BY <1>4, SetReviewType DEF ArchiveTrainingJob, ReviewStatus
<1>5. ASSUME NEW o \in Operators, NEW j \in Jobs, RegisterPurge(o, j, active)
      PROVE  JobTypeOK'
    <2>1. /\ reservations[j].operation + 1 \in Nat
          /\ jobs[j].version \in Nat
        BY DEF Reservation, JobRow
    <2>2. reservations' \in [Jobs -> Reservation]
        BY <1>5, <2>1 DEF RegisterPurge, Reservation, ReservationStatus, ActivePurgeStatus
    <2>3. /\ cli' \in [Operators -> Cli]
          /\ \A q \in Operators : cli'[q].phase # "idle" => cli'[q].job \in Jobs
        BY <1>5, <2>1 DEF RegisterPurge, Cli, CliPhase
    <2>4. QED
        BY <1>5, <2>2, <2>3 DEF RegisterPurge
<1>6. ASSUME NEW o \in Operators, NEW j \in Jobs, ResumePurge(o, j)
      PROVE  JobTypeOK'
    BY <1>6 DEF ResumePurge, Cli, CliPhase, Reservation
<1>7. ASSUME NEW o \in Operators, PersistStages(o)
      PROVE  JobTypeOK'
    <2>1. cli[o].phase = "registered" /\ "staged" \in CliPhase
        BY <1>7 DEF PersistStages, At, CliPhase
    <2>2. reservations' \in [Jobs -> Reservation]
        BY <1>7 DEF PersistStages, Reservation
    <2>3. QED
        BY <1>7, <2>1, <2>2, AdvanceType DEF PersistStages
<1>8. ASSUME NEW o \in Operators, BlockStage(o)
      PROVE  JobTypeOK'
    BY <1>8, SetReservationType, LeaveType DEF BlockStage, At, ReservationStatus
<1>9. ASSUME NEW o \in Operators, AuthorizeFinalDeletion(o, active)
      PROVE  JobTypeOK'
    <2>1. cli[o].phase = "staged" /\ {"bound", "authorized"} \subseteq CliPhase
        BY <1>9 DEF AuthorizeFinalDeletion, At, CliPhase
    <2>2. QED
        BY <1>9, <2>1, SetReservationType, AdvanceType
           DEF AuthorizeFinalDeletion, ReservationStatus, ActivePurgeStatus
<1>10. ASSUME NEW o \in Operators, FenceBeforeBytes(o, active)
       PROVE  JobTypeOK'
    BY <1>10, AdvanceType DEF FenceBeforeBytes, At, CliPhase
<1>11. ASSUME NEW o \in Operators, MoveFinal(o) \/ UnlinkTombstone(o)
       PROVE  JobTypeOK'
    BY <1>11, AdvanceType DEF MoveFinal, UnlinkTombstone, At, CliPhase
<1>12. ASSUME NEW o \in Operators, BindTombstone(o)
       PROVE  JobTypeOK'
    BY <1>12, SetReservationType, AdvanceType
       DEF BindTombstone, At, CliPhase, ReservationStatus, ActivePurgeStatus
<1>13. ASSUME NEW o \in Operators, PersistPurge(o, active)
       PROVE  JobTypeOK'
    BY <1>13, SetReviewType, SetReservationType, LeaveType
       DEF PersistPurge, At, ReviewStatus, ReservationStatus
<1>14. ASSUME NEW o \in Operators, PurgeStops(o)
       PROVE  JobTypeOK'
    BY <1>14, LeaveType DEF PurgeStops
<1>15. QED
    BY <1>1, <1>2, <1>3, <1>4, <1>5, <1>6, <1>7, <1>8, <1>9, <1>10, <1>11, <1>12,
       <1>13, <1>14 DEF JobNext

\* The part of TypeOK that is about the execution rows alone.
ExecsTyped ==
    /\ execs \in [Execs -> ExecRow]
    /\ \A e \in Execs :
         /\ execs[e].status # "absent" =>
              /\ execs[e].job \in Jobs
              /\ execs[e].requester \in Users
              /\ execs[e].number \in Numbers
         /\ execs[e].current \in Numbers \union {0}

\* Rows only ever come into being.
RowsStay == \A e \in Execs : execs[e].status # "absent" => execs'[e].status # "absent"

\* What a write must be to keep the execution rows typed.
LiveRow(r) ==
    /\ r \in ExecRow
    /\ r.status # "absent"
    /\ r.job \in Jobs
    /\ r.requester \in Users
    /\ r.number \in Numbers
    /\ r.current \in Numbers \union {0}

LEMMA LiveRowOf ==
    ASSUME TypeOK, NEW e \in Execs, execs[e].status # "absent"
    PROVE  LiveRow(execs[e])
BY DEF TypeOK, LiveRow

LEMMA SetExecTyped ==
    ASSUME TypeOK, NEW e \in Execs, NEW row, LiveRow(row), SetExec(e, row)
    PROVE  ExecsTyped' /\ RowsStay
BY DEF TypeOK, ExecsTyped, RowsStay, LiveRow, SetExec

LEMMA PickedRow ==
    ASSUME TypeOK, NEW w \in Workers, wk[w].phase # "idle"
    PROVE  wk[w].exec \in Execs /\ LiveRow(execs[wk[w].exec])
BY LiveRowOf DEF TypeOK

\* A worker that keeps or takes a typed place keeps the workers typed.
LEMMA WorkerTyped ==
    ASSUME TypeOK, ExecsTyped', RowsStay,
           attempts' \in [Execs -> [Numbers -> AttemptStatus]],
           UNCHANGED jobVars,
           NEW w \in Workers, NEW state \in Worker, wk' = [wk EXCEPT ![w] = state],
           state.phase # "idle" => state.exec \in Execs /\ execs[state.exec].status # "absent",
           state.phase \in WorkingPhase => state.attempt \in Numbers,
           state.phase \in {"returned", "finishing"} => state.result \in Results
    PROVE  TypeOK'
<1>1. JobTypeOK'
    BY DEF TypeOK, JobTypeOK, jobVars
<1>2. wk' \in [Workers -> Worker]
    BY DEF TypeOK
<1>3. \A v \in Workers :
        /\ wk'[v].phase # "idle" => wk'[v].exec \in Execs /\ execs'[wk'[v].exec].status # "absent"
        /\ wk'[v].phase \in WorkingPhase => wk'[v].attempt \in Numbers
        /\ wk'[v].phase \in {"returned", "finishing"} => wk'[v].result \in Results
    BY DEF TypeOK, RowsStay
<1>4. QED
    BY <1>1, <1>2, <1>3 DEF TypeOK, ExecsTyped

\* A step that leaves the workers alone.
LEMMA WorkersStayTyped ==
    ASSUME TypeOK, ExecsTyped', RowsStay,
           attempts' \in [Execs -> [Numbers -> AttemptStatus]],
           UNCHANGED jobVars, UNCHANGED wk
    PROVE  TypeOK'
<1>1. JobTypeOK'
    BY DEF TypeOK, JobTypeOK, jobVars
<1>2. QED
    BY <1>1 DEF TypeOK, ExecsTyped, RowsStay

LEMMA UnchangedExecs ==
    ASSUME TypeOK, UNCHANGED execs
    PROVE  ExecsTyped' /\ RowsStay
BY DEF TypeOK, ExecsTyped, RowsStay

LEMMA ApiTypePreserved ==
    ASSUME TypeOK, Api
    PROVE  TypeOK'
<1> USE ExecutionAssumption
<1>1. ASSUME NEW u \in Users, NEW j \in Jobs, EnqueueTrainingExecution(u, j)
      PROVE  TypeOK'
    <2>1. jobs[j].version \in Nat /\ 1 \in Numbers
        BY DEF TypeOK, JobTypeOK, JobRow, Numbers
    <2>2. LiveRow(QueuedRow(u, j))
        BY <2>1 DEF LiveRow, QueuedRow, ExecRow, ExecStatus, ActiveStatus
    <2>3. QED
        BY <1>1, <2>2, SetExecTyped, WorkersStayTyped DEF EnqueueTrainingExecution, TypeOK
<1>2. ASSUME NEW e \in Execs, CancelTrainingExecution(e)
      PROVE  TypeOK'
    <2>1. LiveRow(execs[e])
        BY <1>2, LiveRowOf DEF CancelTrainingExecution
    <2>2. /\ LiveRow([execs[e] EXCEPT !.status = "cancelled", !.error = "cancelled"])
          /\ LiveRow([execs[e] EXCEPT !.status = "cancel_requested", !.cancelAt = TRUE])
        BY <2>1 DEF LiveRow, ExecRow, ExecStatus, ActiveStatus
    <2>3. QED
        BY <1>2, <2>2, SetExecTyped, WorkersStayTyped DEF CancelTrainingExecution, TypeOK
<1>3. ASSUME NEW e \in Execs, RetryTrainingExecution(e)
      PROVE  TypeOK'
    <2>1. LiveRow(execs[e])
        BY <1>3, LiveRowOf DEF RetryTrainingExecution
    <2>2. LiveRow(RetriedRow(execs[e]))
        <3>1. execs[e].number + 1 \in Numbers /\ execs[e].number + 1 \in Nat
            BY <1>3, <2>1 DEF RetryTrainingExecution, LiveRow, Numbers
        <3>2. QED
            BY <2>1, <3>1 DEF LiveRow, RetriedRow, ExecRow, ExecStatus, ActiveStatus
    <2>3. QED
        BY <1>3, <2>2, SetExecTyped, WorkersStayTyped DEF RetryTrainingExecution, TypeOK
<1>4. QED
    BY <1>1, <1>2, <1>3 DEF Api

(***************************************************************************)
(* The ways a worker's memory changes, for steps that leave its rows typed.*)
(***************************************************************************)

LEMMA ToIdleTyped ==
    ASSUME TypeOK, ExecsTyped', RowsStay,
           attempts' \in [Execs -> [Numbers -> AttemptStatus]],
           UNCHANGED jobVars,
           NEW w \in Workers, wk' = [wk EXCEPT ![w] = Idle]
    PROVE  TypeOK'
<1>1. Idle.phase = "idle"
    BY DEF Idle
<1>2. QED
    BY <1>1, IdleType, WorkerTyped DEF WorkingPhase

LEMMA ToPhaseTyped ==
    ASSUME TypeOK, ExecsTyped', RowsStay,
           attempts' \in [Execs -> [Numbers -> AttemptStatus]],
           UNCHANGED jobVars,
           NEW w \in Workers, wk[w].phase \in WorkingPhase,
           NEW p \in WorkingPhase,
           NEW result \in Results \union {"none", "check", "unique"},
           p \in {"returned", "finishing"} => result \in Results,
           wk' = [wk EXCEPT ![w].phase = p, ![w].result = result]
    PROVE  TypeOK'
<1> DEFINE state == [wk[w] EXCEPT !.phase = p, !.result = result]
<1>1. wk[w] \in Worker /\ wk[w].exec \in Execs /\ wk[w].attempt \in Numbers
      /\ execs[wk[w].exec].status # "absent"
    BY DEF TypeOK, WorkingPhase
<1>2. state \in Worker
    BY <1>1 DEF Worker, WorkerPhase
<1>3. /\ state.phase = p /\ state.result = result
      /\ state.exec = wk[w].exec /\ state.attempt = wk[w].attempt
    BY <1>1 DEF Worker
<1>4. wk' = [wk EXCEPT ![w] = state]
    BY DEF TypeOK
<1>5. QED
    BY <1>1, <1>2, <1>3, <1>4, WorkerTyped

LEMMA SetPhaseTyped ==
    ASSUME TypeOK, ExecsTyped', RowsStay,
           attempts' \in [Execs -> [Numbers -> AttemptStatus]],
           UNCHANGED jobVars,
           NEW w \in Workers, wk[w].phase \in WorkingPhase,
           NEW p \in WorkingPhase,
           p \in {"returned", "finishing"} => wk[w].result \in Results,
           SetPhase(w, p)
    PROVE  TypeOK'
<1>1. wk[w] \in Worker
    BY DEF TypeOK
<1>2. wk[w].result \in Results \union {"none", "check", "unique"}
    BY <1>1 DEF Worker
<1>3. [wk[w] EXCEPT !.phase = p] = [wk[w] EXCEPT !.phase = p, !.result = wk[w].result]
    BY <1>1 DEF Worker
<1>4. wk' = [wk EXCEPT ![w].phase = p, ![w].result = wk[w].result]
    BY <1>3 DEF SetPhase, TypeOK
<1>5. QED
    BY <1>2, <1>4, ToPhaseTyped

LEMMA AbortTyped ==
    ASSUME TypeOK, UNCHANGED jobVars, NEW w \in Workers, wk[w].phase = "picked",
           NEW c \in {"check", "unique"}, Abort(w, c)
    PROVE  TypeOK'
<1> DEFINE state == [wk[w] EXCEPT !.phase = "aborted", !.result = c]
<1>1. /\ wk[w] \in Worker /\ wk[w].exec \in Execs
      /\ execs[wk[w].exec].status # "absent"
    BY DEF TypeOK
<1>2. state \in Worker
    BY <1>1 DEF Worker, WorkerPhase
<1>3. state.phase = "aborted" /\ state.exec = wk[w].exec
    BY <1>1 DEF Worker
<1>4. wk' = [wk EXCEPT ![w] = state]
    BY DEF TypeOK, Abort
<1>5. ExecsTyped' /\ RowsStay /\ attempts' \in [Execs -> [Numbers -> AttemptStatus]]
    BY UnchangedExecs DEF Abort, TypeOK
<1>6. QED
    BY <1>1, <1>2, <1>3, <1>4, <1>5, WorkerTyped DEF WorkingPhase

(***************************************************************************)
(* Claims.                                                                 *)
(***************************************************************************)

LEMMA ReclaimedType ==
    ASSUME TypeOK, NEW e \in Execs
    PROVE  Reclaimed(e) \in [Numbers -> AttemptStatus]
BY DEF TypeOK, Reclaimed, AttemptStatus

LEMMA ClaimedRowLive ==
    ASSUME TypeOK, NEW r, LiveRow(r), ClaimNumber(r) <= MaxAttempts
    PROVE  LiveRow(ClaimedRow(r)) /\ ClaimNumber(r) \in Numbers
<1> USE ExecutionAssumption
<1>1. ClaimNumber(r) \in Numbers /\ ClaimNumber(r) \in Nat /\ LeaseTicks \in Nat
    BY DEF ClaimNumber, LiveRow, Numbers
<1>2. QED
    BY <1>1 DEF LiveRow, ClaimedRow, ExecRow, ExecStatus, ActiveStatus

LEMMA ClaimTypePreserved ==
    ASSUME TypeOK, NEW w \in Workers, SelectCandidate(w) \/ ClaimSkips(w) \/ Claim(w)
    PROVE  TypeOK'
<1> DEFINE e == wk[w].exec
<1>1. CASE SelectCandidate(w)
    <2>1. PICK c \in Execs :
            /\ Claimable(c)
            /\ wk' = [wk EXCEPT ![w] = Picked(c)]
        BY <1>1 DEF SelectCandidate
    <2>2. c \in Nat
        BY ExecutionAssumption DEF Execs
    <2>4. Picked(c) \in Worker /\ Picked(c).phase = "picked" /\ Picked(c).exec = c
        BY <2>2 DEF Picked, Worker, WorkerPhase
    <2>5. execs[c].status # "absent"
        BY <2>1 DEF Claimable, OwnedStatus
    <2>6. ExecsTyped' /\ RowsStay /\ UNCHANGED jobVars
          /\ attempts' \in [Execs -> [Numbers -> AttemptStatus]]
        BY <1>1, UnchangedExecs DEF SelectCandidate, TypeOK
    <2>7. QED
        BY <2>1, <2>4, <2>5, <2>6, WorkerTyped DEF WorkingPhase
<1>2. CASE ClaimSkips(w)
    BY <1>2, UnchangedExecs, ToIdleTyped DEF ClaimSkips, TypeOK
<1>3. CASE ClaimRefuses(w)
    <2>1. LiveRow(execs[e]) /\ e \in Execs
        BY <1>3, PickedRow DEF ClaimRefuses
    <2>2. LiveRow(RefusedRow(execs[e]))
        BY <2>1 DEF LiveRow, RefusedRow, ExecRow, ExecStatus
    <2>3. CASE LifecycleCheck(RefusedRow(execs[e]))
        BY <1>3, <2>1, <2>2, <2>3, SetExecTyped, ToIdleTyped DEF ClaimRefuses, TypeOK
    <2>4. CASE ~LifecycleCheck(RefusedRow(execs[e]))
        BY <1>3, <2>4, AbortTyped DEF ClaimRefuses
    <2>5. QED
        BY <2>3, <2>4
<1>4. CASE ClaimCancels(w)
    <2>1. LiveRow(execs[e]) /\ e \in Execs
        BY <1>4, PickedRow DEF ClaimCancels
    <2>2. LiveRow([execs[e] EXCEPT !.status = "cancelled", !.error = "cancelled",
                                   !.current = 0, !.lease = 0])
        BY <2>1 DEF LiveRow, ExecRow, ExecStatus
    <2>3. attempts' \in [Execs -> [Numbers -> AttemptStatus]]
        BY <1>4, <2>1, ReclaimedType DEF ClaimCancels, TypeOK
    <2>4. QED
        BY <1>4, <2>1, <2>2, <2>3, SetExecTyped, ToIdleTyped DEF ClaimCancels
<1>5. CASE ClaimRuns(w)
    <2> DEFINE n == ClaimNumber(execs[e])
               fits == attempts[e][n] = "none" /\ ~OtherActive(e)
                       /\ LifecycleCheck(ClaimedRow(execs[e]))
    <2>1. LiveRow(execs[e]) /\ e \in Execs
        BY <1>5, PickedRow DEF ClaimRuns
    <2>2. LiveRow(ClaimedRow(execs[e])) /\ n \in Numbers
        BY <1>5, <2>1, ClaimedRowLive DEF ClaimRuns
    <2>3. CASE ~fits
        BY <1>5, <2>3, AbortTyped DEF ClaimRuns
    <2>4. CASE fits
        <3>1. /\ SetExec(e, ClaimedRow(execs[e]))
              /\ attempts' = [attempts EXCEPT ![e] = [Reclaimed(e) EXCEPT ![n] = "running"]]
              /\ wk' = [wk EXCEPT ![w] = Claimed(e, n)]
              /\ UNCHANGED jobVars
            BY <1>5, <2>4 DEF ClaimRuns
        <3>2. [Reclaimed(e) EXCEPT ![n] = "running"] \in [Numbers -> AttemptStatus]
            BY <2>1, <2>2, ReclaimedType DEF AttemptStatus
        <3>3. attempts' \in [Execs -> [Numbers -> AttemptStatus]]
            BY <2>1, <3>1, <3>2 DEF TypeOK
        <3>5. e \in Nat /\ n \in Nat
            BY <2>1, <2>2, ExecutionAssumption DEF Execs, Numbers
        <3>6. /\ Claimed(e, n) \in Worker /\ Claimed(e, n).phase = "claimed"
              /\ Claimed(e, n).exec = e /\ Claimed(e, n).attempt = n
            BY <3>5 DEF Claimed, Worker, WorkerPhase, WorkingPhase
        <3>7. execs[e].status # "absent"
            BY <2>1 DEF LiveRow
        <3>8. QED
            BY <2>1, <2>2, <3>1, <3>3, <3>6, <3>7, SetExecTyped, WorkerTyped
    <2>5. QED
        BY <2>3, <2>4
<1>6. QED
    BY <1>1, <1>2, <1>3, <1>4, <1>5 DEF Claim

(***************************************************************************)
(* Processing.                                                             *)
(***************************************************************************)

LEMMA FinishTyped ==
    ASSUME TypeOK, UNCHANGED <<jobVars, execs, attempts>>,
           NEW w \in Workers, wk[w].phase \in WorkingPhase,
           NEW result \in Results, Finish(w, result)
    PROVE  TypeOK'
<1>1. "finishing" \in WorkingPhase
    BY DEF WorkingPhase
<1>2. ExecsTyped' /\ RowsStay /\ attempts' \in [Execs -> [Numbers -> AttemptStatus]]
    BY UnchangedExecs DEF TypeOK
<1>3. QED
    BY <1>1, <1>2, ToPhaseTyped DEF Finish

LEMMA StepPhaseTyped ==
    ASSUME TypeOK, UNCHANGED <<jobVars, execs, attempts>>,
           NEW w \in Workers, wk[w].phase \in WorkingPhase,
           NEW p \in {"staging", "copied", "running"}, SetPhase(w, p)
    PROVE  TypeOK'
<1>1. p \in WorkingPhase
    BY DEF WorkingPhase
<1>2. ExecsTyped' /\ RowsStay /\ attempts' \in [Execs -> [Numbers -> AttemptStatus]]
    BY UnchangedExecs DEF TypeOK
<1>3. QED
    BY <1>1, <1>2, SetPhaseTyped

LEMMA FinalRowLive ==
    ASSUME NEW r, LiveRow(r), NEW result \in Results
    PROVE  /\ LiveRow(FinalRow(r, result))
           /\ FinalRow(r, result).status \in {"succeeded", "failed", "cancelled"}
<1>1. FinalResult(r, result) \in Results
    BY DEF FinalResult, Results
<1>2. QED
    BY <1>1, FinalTypes DEF LiveRow, FinalRow, ExecRow, ExecStatus

LEMMA ProcessTypePreserved ==
    ASSUME TypeOK, NEW w \in Workers, Process(w)
    PROVE  TypeOK'
<1>1. CASE RuntimeMissing(w)
    BY <1>1, FinishTyped DEF RuntimeMissing, WorkingPhase, Results
<1>2. CASE CheckClaim(w)
    BY <1>2, StepPhaseTyped DEF CheckClaim, WorkingPhase
<1>3. CASE CheckpointRaises(w)
    BY <1>3, FinishTyped DEF CheckpointRaises, WorkingPhase, Results
<1>4. CASE CopyInput(w)
    BY <1>4, StepPhaseTyped DEF CopyInput, WorkingPhase
<1>5. CASE CopyFails(w)
    BY <1>5, FinishTyped DEF CopyFails, WorkingPhase, Results
<1>6. CASE PersistInput(w)
    BY <1>6, StepPhaseTyped DEF PersistInput, WorkingPhase
<1>7. CASE RuntimeReturns(w)
    <2>1. ExecsTyped' /\ RowsStay /\ attempts' \in [Execs -> [Numbers -> AttemptStatus]]
        BY <1>7, UnchangedExecs DEF RuntimeReturns, TypeOK
    <2>2. ASSUME NEW result \in Results,
                 wk' = [wk EXCEPT ![w].phase = "returned", ![w].result = result]
          PROVE  TypeOK'
        BY <1>7, <2>1, <2>2, ToPhaseTyped DEF RuntimeReturns, WorkingPhase
    <2>3. QED
        BY <1>7, <2>2, FinishTyped DEF RuntimeReturns, WorkingPhase, Results
<1>8. CASE CheckResult(w)
    <2>1. ExecsTyped' /\ RowsStay /\ attempts' \in [Execs -> [Numbers -> AttemptStatus]]
        BY <1>8, UnchangedExecs DEF CheckResult, TypeOK
    <2>2. wk[w].result \in Results
        BY <1>8 DEF CheckResult, TypeOK
    <2>3. QED
        BY <1>8, <2>1, <2>2, SetPhaseTyped DEF CheckResult, WorkingPhase
<1>9. CASE Finalize(w)
    <2> DEFINE e == wk[w].exec
               row == FinalRow(execs[e], wk[w].result)
    <2>1. /\ e \in Execs /\ LiveRow(execs[e]) /\ wk[w].result \in Results
          /\ wk[w].attempt \in Numbers
        BY <1>9, PickedRow DEF Finalize, TypeOK, WorkingPhase
    <2>2. LiveRow(row) /\ row.status \in AttemptStatus
        BY <2>1, FinalRowLive DEF AttemptStatus
    <2>3. CASE Owns(w) /\ LifecycleCheck(row)
        <3>1. attempts' \in [Execs -> [Numbers -> AttemptStatus]]
            <4>1. attempts' = [attempts EXCEPT ![e][wk[w].attempt] = row.status]
                BY <1>9, <2>3 DEF Finalize, FinalAttempt
            <4>2. QED
                BY <2>1, <2>2, <4>1 DEF TypeOK
        <3>2. QED
            BY <1>9, <2>1, <2>2, <2>3, <3>1, SetExecTyped, ToIdleTyped DEF Finalize
    <2>4. CASE ~(Owns(w) /\ LifecycleCheck(row))
        BY <1>9, <2>4, UnchangedExecs, ToIdleTyped DEF Finalize, TypeOK
    <2>5. QED
        BY <2>3, <2>4
<1>10. QED
    BY <1>1, <1>2, <1>3, <1>4, <1>5, <1>6, <1>7, <1>8, <1>9 DEF Process

LEMMA LeaseTypePreserved ==
    ASSUME TypeOK, (\E w \in Workers : RenewExecutionLease(w)) \/ Tick
    PROVE  TypeOK'
<1> USE ExecutionAssumption
<1>1. ASSUME NEW w \in Workers, RenewExecutionLease(w)
      PROVE  TypeOK'
    <2> DEFINE e == wk[w].exec
    <2>1. e \in Execs /\ LiveRow(execs[e])
        BY <1>1, PickedRow DEF RenewExecutionLease
    <2>2. LiveRow([execs[e] EXCEPT !.lease = LeaseTicks])
        BY <2>1 DEF LiveRow, ExecRow
    <2>3. QED
        BY <1>1, <2>1, <2>2, SetExecTyped, WorkersStayTyped DEF RenewExecutionLease, TypeOK
<1>2. CASE Tick
    <2>1. ASSUME NEW f \in Execs
          PROVE  /\ execs'[f] \in ExecRow
                 /\ execs'[f].status = execs[f].status
                 /\ execs'[f].job = execs[f].job
                 /\ execs'[f].requester = execs[f].requester
                 /\ execs'[f].number = execs[f].number
                 /\ execs'[f].current = execs[f].current
        <3>1. execs[f] \in ExecRow
            BY DEF TypeOK
        <3>2. execs[f].lease > 0 => execs[f].lease - 1 \in Nat
            BY <3>1 DEF ExecRow
        <3>3. CASE execs[f].lease > 0
            <4>1. execs'[f] = [execs[f] EXCEPT !.lease = execs[f].lease - 1]
                BY <1>2, <3>3 DEF Tick
            <4>2. QED
                BY <3>1, <3>2, <3>3, <4>1 DEF ExecRow
        <3>4. CASE ~(execs[f].lease > 0)
            BY <1>2, <3>1, <3>4 DEF Tick
        <3>5. QED
            BY <3>3, <3>4
    <2>2. execs' \in [Execs -> ExecRow]
        BY <1>2, <2>1 DEF Tick
    <2>3. ExecsTyped' /\ RowsStay
        BY <2>1, <2>2 DEF ExecsTyped, RowsStay, TypeOK
    <2>4. QED
        BY <1>2, <2>3, WorkersStayTyped DEF Tick, TypeOK
<1>3. QED
    BY <1>1, <1>2

LEMMA NextTypeOK == TypeOK /\ [Next]_vars => TypeOK'
<1> SUFFICES ASSUME TypeOK, [Next]_vars PROVE TypeOK'
    OBVIOUS
<1>1. CASE UNCHANGED vars
    BY <1>1, UnchangedExecs, WorkersStayTyped DEF vars, jobVars, TypeOK
<1>2. CASE JobNext(ActiveJobs) /\ UNCHANGED execVars
    <2>1. JobTypeOK'
        BY <1>2, JobTypePreserved DEF TypeOK
    <2>2. QED
        BY <1>2, <2>1 DEF execVars, TypeOK
<1>3. CASE Api
    BY <1>3, ApiTypePreserved
<1>4. ASSUME NEW w \in Workers, SelectCandidate(w) \/ ClaimSkips(w) \/ Claim(w)
      PROVE  TypeOK'
    BY <1>4, ClaimTypePreserved
<1>5. ASSUME NEW w \in Workers, Process(w)
      PROVE  TypeOK'
    BY <1>5, ProcessTypePreserved
<1>6. ASSUME NEW w \in Workers, WorkerCrash(w) \/ WorkerRestart(w)
      PROVE  TypeOK'
    BY <1>6, UnchangedExecs, ToIdleTyped DEF WorkerCrash, WorkerRestart, TypeOK
<1>7. CASE (\E w \in Workers : RenewExecutionLease(w)) \/ Tick
    BY <1>7, LeaseTypePreserved
<1>8. QED
    BY <1>1, <1>2, <1>3, <1>4, <1>5, <1>6, <1>7 DEF Next

\* Every reachable state is typed.
THEOREM TypeCorrect == Spec => []TypeOK
<1>1. QED
    BY InitTypeOK, NextTypeOK, PTL DEF Spec

(***************************************************************************)
(* The fence.  ExecutionFence alone is not inductive: a retry or a revived *)
(* candidate makes an ended execution active again, so what it froze must  *)
(* also hold of executions that have ended, as long as their job is still  *)
(* approved.  It does because a job is approved once, before the first of  *)
(* its executions exists, and changes next when it is archived.            *)
(***************************************************************************)

FrozenAuthority ==
    \A e \in Execs : execs[e].status # "absent" =>
        /\ jobs[execs[e].job].review \in {"approved", "archived", "purged"}
        /\ AuthorityHolds(execs[e]) \/ jobs[execs[e].job].review # "approved"

FenceInv == TypeOK /\ FrozenAuthority /\ ExecutionFence

\* What one step may do to a job with regard to the executions it reads.
JobStep(j, active) ==
    /\ \/ jobs'[j] = jobs[j]
       \/ jobs[j].review = "pending"
       \/ /\ j \notin active
          /\ jobs'[j].review \in {"archived", "purged"}
    /\ PurgeActive(j)' => PurgeActive(j) \/ j \notin active

LEMMA SetReviewStep ==
    ASSUME JobTypeOK, NEW j \in Jobs, NEW status, SetReview(j, status)
    PROVE  /\ jobs'[j].review = status
           /\ \A k \in Jobs \ {j} : jobs'[k] = jobs[k]
BY DEF JobTypeOK, SetReview

LEMMA JobSteps ==
    ASSUME JobTypeOK, NEW active, JobNext(active), NEW j \in Jobs
    PROVE  JobStep(j, active)
<1>1. CASE ArchiveDepartment \/ \E u \in Users : RevokeAdmin(u) \/ ReinstateAdmin(u)
    BY <1>1 DEF ArchiveDepartment, RevokeAdmin, ReinstateAdmin, JobStep, PurgeActive
<1>2. ASSUME NEW k \in Jobs, NEW d \in {"approve", "reject", "archive"},
             ReviewTrainingJob(k, d, active)
      PROVE  JobStep(j, active)
    <2>1. /\ d = "archive" => k \notin active
          /\ d # "archive" => jobs[k].review = "pending"
          /\ d = "archive" => ReviewTransition(d).to = "archived"
        BY <1>2 DEF ReviewTrainingJob, ReviewTransition
    <2>2. /\ jobs'[k].review = ReviewTransition(d).to
          /\ \A l \in Jobs \ {k} : jobs'[l] = jobs[l]
        BY <1>2, SetReviewStep DEF ReviewTrainingJob
    <2>3. QED
        BY <1>2, <2>1, <2>2 DEF ReviewTrainingJob, JobStep, PurgeActive
<1>3. ASSUME NEW k \in Jobs, ArchiveTrainingJob(k, active)
      PROVE  JobStep(j, active)
    BY <1>3, SetReviewStep DEF ArchiveTrainingJob, JobStep, PurgeActive
<1>4. ASSUME NEW o \in Operators, NEW k \in Jobs, RegisterPurge(o, k, active)
      PROVE  JobStep(j, active)
    BY <1>4 DEF RegisterPurge, JobStep, PurgeActive, JobTypeOK
<1>5. ASSUME NEW o \in Operators, NEW k \in Jobs, ResumePurge(o, k)
      PROVE  JobStep(j, active)
    BY <1>5 DEF ResumePurge, JobStep, PurgeActive
<1>6. ASSUME NEW o \in Operators,
             \/ PersistStages(o) \/ BlockStage(o)
             \/ AuthorizeFinalDeletion(o, active) \/ BindTombstone(o)
      PROVE  JobStep(j, active)
    <2>1. /\ cli[o].job \in Jobs
          /\ PurgeActive(cli[o].job)
          /\ UNCHANGED jobs
        BY <1>6 DEF PersistStages, BlockStage, AuthorizeFinalDeletion, BindTombstone,
                    PurgeAuthority, PurgeActive, ActivePurgeStatus, At, JobTypeOK
    <2>2. \A k \in Jobs \ {cli[o].job} : reservations'[k] = reservations[k]
        BY <1>6, <2>1 DEF PersistStages, BlockStage, AuthorizeFinalDeletion, BindTombstone,
                          SetReservation, JobTypeOK
    <2>3. QED
        BY <2>1, <2>2 DEF JobStep, PurgeActive
<1>7. ASSUME NEW o \in Operators,
             FenceBeforeBytes(o, active) \/ MoveFinal(o) \/ UnlinkTombstone(o) \/ PurgeStops(o)
      PROVE  JobStep(j, active)
    BY <1>7 DEF FenceBeforeBytes, MoveFinal, UnlinkTombstone, PurgeStops, JobStep, PurgeActive
<1>8. ASSUME NEW o \in Operators, PersistPurge(o, active)
      PROVE  JobStep(j, active)
    <2>1. cli[o].job \in Jobs /\ cli[o].job \notin active
        BY <1>8 DEF PersistPurge, At, JobTypeOK
    <2>2. /\ jobs'[cli[o].job].review = "purged"
          /\ \A k \in Jobs \ {cli[o].job} : jobs'[k] = jobs[k]
        BY <1>8, <2>1, SetReviewStep DEF PersistPurge
    <2>3. \A k \in Jobs \ {cli[o].job} : reservations'[k] = reservations[k]
        BY <1>8, <2>1 DEF PersistPurge, SetReservation, JobTypeOK
    <2>4. QED
        BY <2>1, <2>2, <2>3 DEF JobStep, PurgeActive
<1>9. QED
    BY <1>1, <1>2, <1>3, <1>4, <1>5, <1>6, <1>7, <1>8 DEF JobNext

LEMMA JobFence ==
    ASSUME FenceInv, JobNext(ActiveJobs), UNCHANGED execVars
    PROVE  FrozenAuthority' /\ ExecutionFence'
<1> USE DEF FenceInv
<1>1. ASSUME NEW e \in Execs, execs[e].status # "absent"
      PROVE  /\ jobs'[execs[e].job].review \in {"approved", "archived", "purged"}
             /\ AuthorityHolds(execs[e])' \/ jobs'[execs[e].job].review # "approved"
             /\ Active(e) => /\ Phase11Authority(execs[e].job)'
                             /\ execs[e].authority = jobs'[execs[e].job].version
    <2>1. execs[e].job \in Jobs
        BY <1>1 DEF TypeOK
    <2>2. JobStep(execs[e].job, ActiveJobs)
        BY <2>1, JobSteps DEF TypeOK
    <2>3. Active(e) => execs[e].job \in ActiveJobs
        BY <2>1 DEF ActiveJobs
    <2>4. UNCHANGED execs
        BY DEF execVars
    <2>5. /\ jobs[execs[e].job].review \in {"approved", "archived", "purged"}
          /\ AuthorityHolds(execs[e]) \/ jobs[execs[e].job].review # "approved"
          /\ Active(e) => /\ Phase11Authority(execs[e].job)
                          /\ execs[e].authority = jobs[execs[e].job].version
        BY <1>1 DEF FrozenAuthority, ExecutionFence
    <2>6. QED
        BY <2>2, <2>3, <2>4, <2>5 DEF JobStep, AuthorityHolds, Phase11Authority
<1>2. QED
    BY <1>1 DEF FrozenAuthority, ExecutionFence, execVars, Active, ActiveStatus

\* A write that keeps what a row froze and activates it only under its fence.
LEMMA WriteFence ==
    ASSUME FenceInv, UNCHANGED jobVars, NEW e \in Execs, NEW row, SetExec(e, row),
           row.status # "absent",
           /\ jobs[row.job].review \in {"approved", "archived", "purged"}
           /\ AuthorityHolds(row) \/ jobs[row.job].review # "approved",
           row.status \in ActiveStatus => Phase11Authority(row.job) /\ AuthorityHolds(row)
    PROVE  FrozenAuthority' /\ ExecutionFence'
BY DEF FenceInv, TypeOK, SetExec, FrozenAuthority, ExecutionFence, Active, ActiveStatus,
       Phase11Authority, AuthorityHolds, PurgeActive, jobVars

\* A write that keeps job and authority of an existing row.
LEMMA RewriteFence ==
    ASSUME FenceInv, UNCHANGED jobVars, NEW e \in Execs, execs[e].status # "absent",
           NEW row, SetExec(e, row), row.status # "absent",
           row.job = execs[e].job, row.authority = execs[e].authority,
           row.status \in ActiveStatus =>
               \/ Active(e)
               \/ Phase11Authority(row.job)
    PROVE  FrozenAuthority' /\ ExecutionFence'
<1>1. /\ jobs[row.job].review \in {"approved", "archived", "purged"}
      /\ AuthorityHolds(row) \/ jobs[row.job].review # "approved"
    BY DEF FenceInv, FrozenAuthority, AuthorityHolds
<1>2. row.status \in ActiveStatus => Phase11Authority(row.job) /\ AuthorityHolds(row)
    BY <1>1 DEF FenceInv, ExecutionFence, Phase11Authority
<1>3. QED
    BY <1>1, <1>2, WriteFence

\* Steps that leave jobs and rows alone.
LEMMA StutterFence ==
    ASSUME FenceInv, UNCHANGED <<jobVars, execs>>
    PROVE  FrozenAuthority' /\ ExecutionFence'
BY DEF FenceInv, FrozenAuthority, ExecutionFence, Active, Phase11Authority, AuthorityHolds,
       PurgeActive, jobVars

LEMMA ApiFence ==
    ASSUME FenceInv, Api
    PROVE  FrozenAuthority' /\ ExecutionFence'
<1>1. ASSUME NEW u \in Users, NEW j \in Jobs, EnqueueTrainingExecution(u, j)
      PROVE  FrozenAuthority' /\ ExecutionFence'
    <2>1. PICK e \in Execs : SetExec(e, QueuedRow(u, j))
        BY <1>1 DEF EnqueueTrainingExecution
    <2>2. /\ QueuedRow(u, j).status = "queued"
          /\ QueuedRow(u, j).job = j
          /\ QueuedRow(u, j).authority = jobs[j].version
        BY DEF QueuedRow
    <2>3. Phase11Authority(j) /\ UNCHANGED jobVars
        BY <1>1 DEF EnqueueTrainingExecution
    <2>4. AuthorityHolds(QueuedRow(u, j)) /\ jobs[j].review = "approved"
        BY <2>2, <2>3 DEF AuthorityHolds, Phase11Authority
    <2>5. QED
        BY <2>1, <2>2, <2>3, <2>4, WriteFence
<1>2. ASSUME NEW e \in Execs, CancelTrainingExecution(e)
      PROVE  FrozenAuthority' /\ ExecutionFence'
    <2> DEFINE done == [execs[e] EXCEPT !.status = "cancelled", !.error = "cancelled"]
               asked == [execs[e] EXCEPT !.status = "cancel_requested", !.cancelAt = TRUE]
    <2>1. execs[e].status \in {"queued", "running"} /\ UNCHANGED jobVars
          /\ (SetExec(e, done) \/ SetExec(e, asked))
        BY <1>2 DEF CancelTrainingExecution
    <2>2. LiveRow(execs[e])
        BY <2>1, LiveRowOf DEF FenceInv
    <2>3. /\ done.status = "cancelled" /\ asked.status = "cancel_requested"
          /\ done.job = execs[e].job /\ asked.job = execs[e].job
          /\ done.authority = execs[e].authority /\ asked.authority = execs[e].authority
        BY <2>2 DEF LiveRow, ExecRow
    <2>4. Active(e)
        BY <2>1 DEF Active, ActiveStatus
    <2>5. QED
        BY <2>1, <2>3, <2>4, RewriteFence
<1>3. ASSUME NEW e \in Execs, RetryTrainingExecution(e)
      PROVE  FrozenAuthority' /\ ExecutionFence'
    <2>1. /\ execs[e].status \in {"failed", "cancelled"} /\ UNCHANGED jobVars
          /\ Phase11Authority(execs[e].job)
          /\ SetExec(e, RetriedRow(execs[e]))
        BY <1>3 DEF RetryTrainingExecution
    <2>2. LiveRow(execs[e])
        BY <2>1, LiveRowOf DEF FenceInv
    <2>3. /\ RetriedRow(execs[e]).status = "queued"
          /\ RetriedRow(execs[e]).job = execs[e].job
          /\ RetriedRow(execs[e]).authority = execs[e].authority
        BY <2>2 DEF RetriedRow, LiveRow, ExecRow
    <2>4. QED
        BY <2>1, <2>3, RewriteFence
<1>4. QED
    BY <1>1, <1>2, <1>3 DEF Api

LEMMA ClaimFence ==
    ASSUME FenceInv, NEW w \in Workers, Claim(w)
    PROVE  FrozenAuthority' /\ ExecutionFence'
<1> DEFINE e == wk[w].exec
<1>1. e \in Execs /\ LiveRow(execs[e]) /\ execs[e].status # "absent" /\ UNCHANGED jobVars
    BY PickedRow DEF FenceInv, Claim, ClaimRefuses, ClaimCancels, ClaimRuns, LiveRow
<1>2. CASE ClaimRefuses(w)
    <2>1. /\ RefusedRow(execs[e]).status = "failed"
          /\ RefusedRow(execs[e]).job = execs[e].job
          /\ RefusedRow(execs[e]).authority = execs[e].authority
        BY <1>1 DEF RefusedRow, LiveRow, ExecRow
    <2>2. SetExec(e, RefusedRow(execs[e])) \/ UNCHANGED execs
        BY <1>2 DEF ClaimRefuses, Abort
    <2>3. "failed" \notin ActiveStatus
        BY DEF ActiveStatus
    <2>4. QED
        BY <1>1, <2>1, <2>2, <2>3, RewriteFence, StutterFence
<1>3. CASE ClaimCancels(w)
    <2> DEFINE row == [execs[e] EXCEPT !.status = "cancelled", !.error = "cancelled",
                                       !.current = 0, !.lease = 0]
    <2>1. row.status = "cancelled" /\ row.job = execs[e].job
          /\ row.authority = execs[e].authority
        BY <1>1 DEF LiveRow, ExecRow
    <2>2. SetExec(e, row)
        BY <1>3 DEF ClaimCancels
    <2>3. "cancelled" \notin ActiveStatus
        BY DEF ActiveStatus
    <2>4. QED
        BY <1>1, <2>1, <2>2, <2>3, RewriteFence
<1>4. CASE ClaimRuns(w)
    <2>1. /\ ClaimedRow(execs[e]).status = "running"
          /\ ClaimedRow(execs[e]).job = execs[e].job
          /\ ClaimedRow(execs[e]).authority = execs[e].authority
        BY <1>1 DEF ClaimedRow, LiveRow, ExecRow
    <2>2. SetExec(e, ClaimedRow(execs[e])) \/ UNCHANGED execs
        BY <1>4 DEF ClaimRuns, Abort
    <2>3. Phase11Authority(execs[e].job)
        BY <1>4 DEF ClaimRuns, ClaimAllowed, AuthorityHolds, Phase11Authority
    <2>4. QED
        BY <1>1, <2>1, <2>2, <2>3, RewriteFence, StutterFence
<1>5. QED
    BY <1>2, <1>3, <1>4 DEF Claim

LEMMA FinalizeFence ==
    ASSUME FenceInv, NEW w \in Workers, Finalize(w)
    PROVE  FrozenAuthority' /\ ExecutionFence'
<1> DEFINE e == wk[w].exec
           row == FinalRow(execs[e], wk[w].result)
<1>1. /\ e \in Execs /\ LiveRow(execs[e]) /\ execs[e].status # "absent"
      /\ wk[w].result \in Results /\ UNCHANGED jobVars
    BY PickedRow DEF FenceInv, Finalize, TypeOK, LiveRow
<1>2. row.status \in {"succeeded", "failed", "cancelled"}
    BY <1>1, FinalRowLive
<1>3. row.job = execs[e].job /\ row.authority = execs[e].authority
    BY <1>1 DEF FinalRow, LiveRow, ExecRow
<1>4. row.status # "absent" /\ row.status \notin ActiveStatus
    BY <1>2 DEF ActiveStatus
<1>5. SetExec(e, row) \/ UNCHANGED execs
    BY DEF Finalize
<1>6. QED
    BY <1>1, <1>3, <1>4, <1>5, RewriteFence, StutterFence

LEMMA LeaseFence ==
    ASSUME FenceInv, (\E w \in Workers : RenewExecutionLease(w)) \/ Tick
    PROVE  FrozenAuthority' /\ ExecutionFence'
<1>1. UNCHANGED jobVars
    BY DEF RenewExecutionLease, Tick
<1>2. \A f \in Execs : /\ execs'[f].status = execs[f].status
                       /\ execs'[f].job = execs[f].job
                       /\ execs'[f].authority = execs[f].authority
    <2>1. \A f \in Execs : execs[f] \in ExecRow
        BY DEF FenceInv, TypeOK
    <2>2. ASSUME NEW w \in Workers, RenewExecutionLease(w), NEW f \in Execs
          PROVE  execs'[f] = execs[f]
                 \/ execs'[f] = [execs[f] EXCEPT !.lease = LeaseTicks]
        BY <2>2 DEF RenewExecutionLease, SetExec, FenceInv, TypeOK
    <2>3. ASSUME Tick, NEW f \in Execs
          PROVE  execs'[f] = execs[f]
                 \/ execs'[f] = [execs[f] EXCEPT !.lease = execs[f].lease - 1]
        BY <2>3 DEF Tick
    <2>4. QED
        BY ZenonT(40), <2>1, <2>2, <2>3 DEF ExecRow
<1>3. QED
    BY <1>1, <1>2 DEF FenceInv, FrozenAuthority, ExecutionFence, Active, Phase11Authority,
                      AuthorityHolds, PurgeActive, jobVars

LEMMA NextFence == FenceInv /\ [Next]_vars => FenceInv'
<1> SUFFICES ASSUME FenceInv, [Next]_vars PROVE FenceInv'
    OBVIOUS
<1>1. TypeOK'
    BY NextTypeOK DEF FenceInv
<1>2. FrozenAuthority' /\ ExecutionFence'
    <2>1. CASE UNCHANGED vars
        BY <2>1, StutterFence DEF vars, jobVars
    <2>2. CASE JobNext(ActiveJobs) /\ UNCHANGED execVars
        BY <2>2, JobFence
    <2>3. CASE Api
        BY <2>3, ApiFence
    <2>4. ASSUME NEW w \in Workers,
                 SelectCandidate(w) \/ ClaimSkips(w) \/ WorkerCrash(w) \/ WorkerRestart(w)
          PROVE  FrozenAuthority' /\ ExecutionFence'
        BY <2>4, StutterFence DEF SelectCandidate, ClaimSkips, WorkerCrash, WorkerRestart
    <2>5. ASSUME NEW w \in Workers, Claim(w)
          PROVE  FrozenAuthority' /\ ExecutionFence'
        BY <2>5, ClaimFence
    <2>6. ASSUME NEW w \in Workers, Process(w)
          PROVE  FrozenAuthority' /\ ExecutionFence'
        BY <2>6, StutterFence, FinalizeFence
           DEF Process, RuntimeMissing, CheckClaim, CheckpointRaises, CopyInput, CopyFails,
               PersistInput, RuntimeReturns, CheckResult
    <2>7. CASE (\E w \in Workers : RenewExecutionLease(w)) \/ Tick
        BY <2>7, LeaseFence
    <2>8. QED
        BY <2>1, <2>2, <2>3, <2>4, <2>5, <2>6, <2>7 DEF Next
<1>3. QED
    BY <1>1, <1>2 DEF FenceInv

LEMMA InitFence == Init => FenceInv
BY InitTypeOK DEF Init, FenceInv, FrozenAuthority, ExecutionFence, Active, ActiveStatus, Absent

\* Queued and running executions fence the archive, the purge and every other
\* change of the job they froze.
THEOREM FenceHolds == Spec => []ExecutionFence
<1>1. FenceInv => ExecutionFence
    BY DEF FenceInv
<1>2. QED
    BY <1>1, InitFence, NextFence, PTL DEF Spec

(***************************************************************************)
(* Who runs an execution: claims, attempts and results.                    *)
(***************************************************************************)

(***************************************************************************)
(* The invariant.  OwnerAttempt needs the row constraint (an ended row has *)
(* no current attempt); OneOwner needs that a claim's number is fresh when *)
(* it is taken, hence that no two workers remember the same attempt.       *)
(***************************************************************************)

LegalRows == \A e \in Execs : execs[e].status # "absent" => LifecycleCheck(execs[e])

KnownAttempts ==
    \A w \in Workers : wk[w].phase \in WorkingPhase => attempts[wk[w].exec][wk[w].attempt] # "none"

DistinctClaims ==
    \A v, w \in Workers :
        /\ v # w
        /\ wk[v].phase \in WorkingPhase /\ wk[w].phase \in WorkingPhase
        /\ wk[v].exec = wk[w].exec
        => wk[v].attempt # wk[w].attempt

RowInv == LegalRows /\ OwnerAttempt
OwnerInv == TypeOK /\ RowInv /\ KnownAttempts /\ DistinctClaims

LEMMA InitOwner == Init => OwnerInv
BY InitTypeOK DEF Init, OwnerInv, RowInv, LegalRows, OwnerAttempt, KnownAttempts,
                  DistinctClaims, Absent, Idle, OwnedStatus, WorkingPhase

\* Rows and attempts left alone, or read through the same fields.
LEMMA SameRows ==
    ASSUME OwnerInv, UNCHANGED <<execs, attempts>>
    PROVE  RowInv'
BY DEF OwnerInv, RowInv, LegalRows, OwnerAttempt, LifecycleCheck

\* A write that makes e owned by no attempt, none of which is running.
LEMMA EndRow ==
    ASSUME OwnerInv, NEW e \in Execs, NEW row, SetExec(e, row),
           LifecycleCheck(row), row.status \notin OwnedStatus,
           NEW states \in [Numbers -> AttemptStatus], attempts' = [attempts EXCEPT ![e] = states],
           \A n \in Numbers : states[n] # "running"
    PROVE  RowInv'
<1>1. /\ execs'[e] = row /\ attempts'[e] = states
      /\ \A f \in Execs \ {e} : execs'[f] = execs[f] /\ attempts'[f] = attempts[f]
    BY DEF OwnerInv, TypeOK, SetExec
<1>2. LegalRows'
    BY <1>1 DEF OwnerInv, RowInv, LegalRows, LifecycleCheck
<1>3. OwnerAttempt'
    BY <1>1 DEF OwnerInv, RowInv, OwnerAttempt
<1>4. QED
    BY <1>2, <1>3 DEF RowInv

\* A write that makes or leaves attempt m the running attempt of e.
LEMMA OwnRow ==
    ASSUME OwnerInv, NEW e \in Execs, NEW row, SetExec(e, row),
           LifecycleCheck(row), row.status \in OwnedStatus, NEW m \in Numbers, row.current = m,
           NEW states \in [Numbers -> AttemptStatus], attempts' = [attempts EXCEPT ![e] = states],
           \A n \in Numbers : states[n] = "running" <=> n = m
    PROVE  RowInv'
<1>1. /\ execs'[e] = row /\ attempts'[e] = states
      /\ \A f \in Execs \ {e} : execs'[f] = execs[f] /\ attempts'[f] = attempts[f]
    BY DEF OwnerInv, TypeOK, SetExec
<1>2. LegalRows'
    BY <1>1 DEF OwnerInv, RowInv, LegalRows, LifecycleCheck
<1>3. OwnerAttempt'
    BY <1>1 DEF OwnerInv, RowInv, OwnerAttempt
<1>4. QED
    BY <1>2, <1>3 DEF RowInv

(***************************************************************************)
(* The rows, action by action.                                             *)
(***************************************************************************)

LEMMA ApiRows ==
    ASSUME OwnerInv, Api
    PROVE  RowInv'
<1> USE DEF OwnerInv
<1>1. UNCHANGED attempts
    BY DEF Api, EnqueueTrainingExecution, CancelTrainingExecution, RetryTrainingExecution
<1>2. ASSUME NEW e \in Execs, NEW row, SetExec(e, row), LifecycleCheck(row),
             execs[e].status \notin OwnedStatus, row.status \notin OwnedStatus
      PROVE  RowInv'
    <2>1. attempts' = [attempts EXCEPT ![e] = attempts[e]]
        BY <1>1 DEF TypeOK
    <2>2. \A n \in Numbers : attempts[e][n] # "running"
        BY <1>2 DEF RowInv, OwnerAttempt
    <2>3. QED
        BY <1>2, <2>1, <2>2, EndRow DEF TypeOK
<1>3. ASSUME NEW u \in Users, NEW j \in Jobs, EnqueueTrainingExecution(u, j)
      PROVE  RowInv'
    <2>1. PICK e \in Execs : execs[e].status = "absent" /\ SetExec(e, QueuedRow(u, j))
        BY <1>3 DEF EnqueueTrainingExecution, NextExec
    <2>2. LifecycleCheck(QueuedRow(u, j)) /\ QueuedRow(u, j).status = "queued"
        BY DEF LifecycleCheck, QueuedRow
    <2>3. QED
        BY <1>2, <2>1, <2>2 DEF OwnedStatus
<1>4. ASSUME NEW e \in Execs, CancelTrainingExecution(e)
      PROVE  RowInv'
    <2> DEFINE done == [execs[e] EXCEPT !.status = "cancelled", !.error = "cancelled"]
               asked == [execs[e] EXCEPT !.status = "cancel_requested", !.cancelAt = TRUE]
    <2>1. /\ execs[e].status \in {"queued", "running"}
          /\ IF execs[e].status = "queued" THEN SetExec(e, done) ELSE SetExec(e, asked)
        BY <1>4 DEF CancelTrainingExecution
    <2>2. execs[e] \in ExecRow /\ LifecycleCheck(execs[e])
        BY <2>1 DEF TypeOK, RowInv, LegalRows
    <2>3. CASE execs[e].status = "queued"
        <3>1. done.status = "cancelled" /\ LifecycleCheck(done)
            BY <2>2, <2>3 DEF ExecRow, LifecycleCheck, OwnedStatus
        <3>2. QED
            BY <1>2, <2>1, <2>3, <3>1 DEF OwnedStatus
    <2>4. CASE execs[e].status = "running"
        <3>1. /\ asked.status = "cancel_requested" /\ asked.current = execs[e].current
              /\ LifecycleCheck(asked)
            BY <2>2, <2>4 DEF ExecRow, LifecycleCheck, OwnedStatus
        <3>2. execs[e].current \in Numbers
            BY <2>2, <2>4 DEF LifecycleCheck, TypeOK, OwnedStatus
        <3>3. \A n \in Numbers : attempts[e][n] = "running" <=> n = execs[e].current
            BY <2>4 DEF RowInv, OwnerAttempt, OwnedStatus
        <3>4. /\ attempts' = [attempts EXCEPT ![e] = attempts[e]]
              /\ attempts[e] \in [Numbers -> AttemptStatus]
            BY <1>1 DEF TypeOK
        <3>5. SetExec(e, asked) /\ asked.status \in OwnedStatus
            BY <2>1, <2>4, <3>1 DEF OwnedStatus
        <3> HIDE DEF asked
        <3>6. QED
            BY <3>1, <3>2, <3>3, <3>4, <3>5, OwnRow
    <2>5. QED
        BY <2>1, <2>3, <2>4
<1>5. ASSUME NEW e \in Execs, RetryTrainingExecution(e)
      PROVE  RowInv'
    <2>1. execs[e].status \in {"failed", "cancelled"} /\ SetExec(e, RetriedRow(execs[e]))
        BY <1>5 DEF RetryTrainingExecution
    <2>2. execs[e] \in ExecRow
        BY DEF TypeOK
    <2>3. LifecycleCheck(RetriedRow(execs[e])) /\ RetriedRow(execs[e]).status = "queued"
        BY <2>2 DEF ExecRow, RetriedRow, LifecycleCheck
    <2>4. QED
        BY <1>2, <2>1, <2>3 DEF OwnedStatus
<1>6. QED
    BY <1>3, <1>4, <1>5 DEF Api

LEMMA ReclaimedStates ==
    ASSUME OwnerInv, NEW e \in Execs
    PROVE  /\ Reclaimed(e) \in [Numbers -> AttemptStatus]
           /\ \A n \in Numbers : /\ Reclaimed(e)[n] # "running"
                                 /\ attempts[e][n] # "running" => Reclaimed(e)[n] = attempts[e][n]
                                 /\ attempts[e][n] # "none" => Reclaimed(e)[n] # "none"
<1>1. Reclaimed(e) \in [Numbers -> AttemptStatus]
    BY ReclaimedType DEF OwnerInv
<1>2. QED
    BY <1>1 DEF Reclaimed, OwnerInv, RowInv, OwnerAttempt

LEMMA ClaimRows ==
    ASSUME OwnerInv, NEW w \in Workers, Claim(w)
    PROVE  RowInv'
<1> DEFINE e == wk[w].exec
<1>1. e \in Execs /\ LiveRow(execs[e])
    BY PickedRow DEF OwnerInv, Claim, ClaimRefuses, ClaimCancels, ClaimRuns
<1>2. execs[e] \in ExecRow /\ LifecycleCheck(execs[e])
    BY <1>1 DEF LiveRow, OwnerInv, RowInv, LegalRows
<1>3. CASE ClaimRefuses(w)
    <2> DEFINE row == RefusedRow(execs[e])
    <2>1. CASE LifecycleCheck(row)
        <3>1. row.status = "failed" /\ row.current = execs[e].current
            BY <1>2 DEF RefusedRow, ExecRow
        <3>2. execs[e].status \notin OwnedStatus
            BY <1>2, <2>1, <3>1 DEF LifecycleCheck, OwnedStatus
        <3>3. \A n \in Numbers : attempts[e][n] # "running"
            BY <1>1, <3>2 DEF OwnerInv, RowInv, OwnerAttempt
        <3>4. SetExec(e, row) /\ attempts' = [attempts EXCEPT ![e] = attempts[e]]
            BY <1>3, <2>1 DEF ClaimRefuses, OwnerInv, TypeOK
        <3>5. QED
            BY <1>1, <2>1, <3>1, <3>3, <3>4, EndRow DEF OwnedStatus, OwnerInv, TypeOK
    <2>2. CASE ~LifecycleCheck(row)
        BY <1>3, <2>2, SameRows DEF ClaimRefuses, Abort
    <2>3. QED
        BY <2>1, <2>2
<1>4. CASE ClaimCancels(w)
    <2> DEFINE row == [execs[e] EXCEPT !.status = "cancelled", !.error = "cancelled",
                                       !.current = 0, !.lease = 0]
    <2>1. row.status = "cancelled" /\ LifecycleCheck(row)
        BY <1>2 DEF ExecRow, LifecycleCheck
    <2>2. SetExec(e, row) /\ attempts' = [attempts EXCEPT ![e] = Reclaimed(e)]
        BY <1>4 DEF ClaimCancels
    <2>3. QED
        BY ZenonT(40), <1>1, <2>1, <2>2, ReclaimedStates, EndRow DEF OwnedStatus
<1>5. CASE ClaimRuns(w)
    <2> DEFINE n == ClaimNumber(execs[e])
               row == ClaimedRow(execs[e])
               states == [Reclaimed(e) EXCEPT ![n] = "running"]
               fits == attempts[e][n] = "none" /\ ~OtherActive(e) /\ LifecycleCheck(row)
    <2>1. CASE fits
        <3>1. n \in Numbers
            BY <1>1, <1>5, ClaimedRowLive DEF ClaimRuns, OwnerInv
        <3>2. row.status = "running" /\ row.current = n
            BY <1>2 DEF ClaimedRow, ExecRow
        <3>3. SetExec(e, row) /\ attempts' = [attempts EXCEPT ![e] = states]
            BY <1>5, <2>1 DEF ClaimRuns
        <3>4. /\ states \in [Numbers -> AttemptStatus]
              /\ \A m \in Numbers : states[m] = "running" <=> m = n
            BY <1>1, <3>1, ReclaimedStates DEF AttemptStatus
        <3>5. LifecycleCheck(row) /\ row.status \in OwnedStatus
            BY <2>1, <3>2 DEF OwnedStatus
        <3> HIDE DEF n, row, states
        <3>6. QED
            BY <1>1, <3>1, <3>2, <3>3, <3>4, <3>5, OwnRow
    <2>2. CASE ~fits
        BY <1>5, <2>2, SameRows DEF ClaimRuns, Abort
    <2>3. QED
        BY <2>1, <2>2
<1>6. QED
    BY <1>3, <1>4, <1>5 DEF Claim

\* The rows a finalization finds when it owns its claim.
LEMMA OwnedFinal ==
    ASSUME OwnerInv, NEW w \in Workers, Finalize(w), Owns(w)
    PROVE  /\ wk[w].exec \in Execs /\ wk[w].attempt \in Numbers /\ wk[w].result \in Results
           /\ LiveRow(execs[wk[w].exec])
           /\ attempts[wk[w].exec][wk[w].attempt] = "running"
           /\ \A n \in Numbers \ {wk[w].attempt} : attempts[wk[w].exec][n] # "running"
<1>1. wk[w].exec \in Execs /\ LiveRow(execs[wk[w].exec])
    BY PickedRow DEF OwnerInv, Finalize
<1>2. wk[w].attempt \in Numbers /\ wk[w].result \in Results
    BY DEF OwnerInv, TypeOK, Finalize, WorkingPhase
<1>3. QED
    BY <1>1, <1>2 DEF Owns, ValidClaim, OwnerInv, RowInv, OwnerAttempt

LEMMA FinalizeRows ==
    ASSUME OwnerInv, NEW w \in Workers, Finalize(w)
    PROVE  RowInv'
<1> DEFINE e == wk[w].exec
           row == FinalRow(execs[e], wk[w].result)
           states == [attempts[e] EXCEPT ![wk[w].attempt] = row.status]
<1>1. CASE Owns(w) /\ LifecycleCheck(row)
    <2>1. SetExec(e, row) /\ attempts' = [attempts EXCEPT ![e] = states]
        BY <1>1 DEF Finalize, FinalAttempt
    <2>2. row.status \in {"succeeded", "failed", "cancelled"}
        BY <1>1, OwnedFinal, FinalRowLive
    <2>3. row.status \notin OwnedStatus /\ row.status \in AttemptStatus /\ row.status # "running"
        BY <2>2 DEF OwnedStatus, AttemptStatus
    <2>4. states \in [Numbers -> AttemptStatus] /\ \A n \in Numbers : states[n] # "running"
        BY <1>1, <2>3, OwnedFinal DEF OwnerInv, TypeOK
    <2>5. QED
        BY <1>1, <2>1, <2>3, <2>4, OwnedFinal, EndRow
<1>2. CASE ~(Owns(w) /\ LifecycleCheck(row))
    BY <1>2, SameRows DEF Finalize
<1>3. QED
    BY <1>1, <1>2

LEMMA LeaseRows ==
    ASSUME OwnerInv, (\E w \in Workers : RenewExecutionLease(w)) \/ Tick
    PROVE  RowInv'
<1>1. UNCHANGED attempts
    BY DEF RenewExecutionLease, Tick
<1>2. \A f \in Execs : /\ execs'[f].status = execs[f].status
                       /\ execs'[f].current = execs[f].current
                       /\ execs'[f].cancelAt = execs[f].cancelAt
                       /\ execs'[f].error = execs[f].error
    <2>1. \A f \in Execs : execs[f] \in ExecRow
        BY DEF OwnerInv, TypeOK
    <2>2. ASSUME NEW w \in Workers, RenewExecutionLease(w), NEW f \in Execs
          PROVE  execs'[f] = execs[f]
                 \/ execs'[f] = [execs[f] EXCEPT !.lease = LeaseTicks]
        BY <2>2 DEF RenewExecutionLease, SetExec, OwnerInv, TypeOK
    <2>3. ASSUME Tick, NEW f \in Execs
          PROVE  execs'[f] = execs[f]
                 \/ execs'[f] = [execs[f] EXCEPT !.lease = execs[f].lease - 1]
        BY <2>3 DEF Tick
    <2>4. QED
        BY ZenonT(40), <2>1, <2>2, <2>3 DEF ExecRow
<1>3. QED
    BY <1>1, <1>2 DEF OwnerInv, RowInv, LegalRows, OwnerAttempt, LifecycleCheck

LEMMA NextRows ==
    ASSUME OwnerInv, [Next]_vars
    PROVE  RowInv'
<1>1. CASE UNCHANGED vars
    BY <1>1, SameRows DEF vars
<1>2. CASE JobNext(ActiveJobs) /\ UNCHANGED execVars
    BY <1>2, SameRows DEF execVars
<1>3. CASE Api
    BY <1>3, ApiRows
<1>4. ASSUME NEW w \in Workers,
             SelectCandidate(w) \/ ClaimSkips(w) \/ WorkerCrash(w) \/ WorkerRestart(w)
      PROVE  RowInv'
    BY <1>4, SameRows DEF SelectCandidate, ClaimSkips, WorkerCrash, WorkerRestart
<1>5. ASSUME NEW w \in Workers, Claim(w)
      PROVE  RowInv'
    BY <1>5, ClaimRows
<1>6. ASSUME NEW w \in Workers, Process(w)
      PROVE  RowInv'
    BY <1>6, SameRows, FinalizeRows
       DEF Process, RuntimeMissing, CheckClaim, CheckpointRaises, CopyInput, CopyFails,
           PersistInput, RuntimeReturns, CheckResult
<1>7. CASE (\E w \in Workers : RenewExecutionLease(w)) \/ Tick
    BY <1>7, LeaseRows
<1>8. QED
    BY <1>1, <1>2, <1>3, <1>4, <1>5, <1>6, <1>7 DEF Next

(***************************************************************************)
(* The attempts, and the claims the workers remember.                      *)
(***************************************************************************)

\* What a step may do to an attempt: a number in use stays in use, and an
\* ended attempt stays as it is.
AttemptStep ==
    \A e \in Execs, n \in Numbers :
        /\ attempts[e][n] # "none" => attempts'[e][n] # "none"
        /\ attempts[e][n] \notin {"none", "running"} => attempts'[e][n] = attempts[e][n]

LEMMA ClaimAttempts ==
    ASSUME OwnerInv, NEW w \in Workers, Claim(w)
    PROVE  AttemptStep
<1> DEFINE e == wk[w].exec
<1>1. e \in Execs /\ LiveRow(execs[e])
    BY PickedRow DEF OwnerInv, Claim, ClaimRefuses, ClaimCancels, ClaimRuns
<1>2. CASE ClaimRefuses(w)
    BY <1>2 DEF ClaimRefuses, Abort, AttemptStep
<1>3. CASE ClaimCancels(w)
    <2>1. attempts' = [attempts EXCEPT ![e] = Reclaimed(e)]
        BY <1>3 DEF ClaimCancels
    <2>2. QED
        BY <1>1, <2>1, ReclaimedStates DEF AttemptStep, OwnerInv, TypeOK
<1>4. CASE ClaimRuns(w)
    <2> DEFINE n == ClaimNumber(execs[e])
               fits == attempts[e][n] = "none" /\ ~OtherActive(e)
                       /\ LifecycleCheck(ClaimedRow(execs[e]))
    <2>1. CASE fits
        <3>1. attempts' = [attempts EXCEPT ![e] = [Reclaimed(e) EXCEPT ![n] = "running"]]
            BY <1>4, <2>1 DEF ClaimRuns
        <3>2. attempts[e][n] = "none"
            BY <2>1
        <3> HIDE DEF n
        <3>3. QED
            BY <1>1, <3>1, <3>2, ReclaimedStates DEF AttemptStep, OwnerInv, TypeOK
    <2>2. CASE ~fits
        BY <1>4, <2>2 DEF ClaimRuns, Abort, AttemptStep
    <2>3. QED
        BY <2>1, <2>2
<1>5. QED
    BY <1>2, <1>3, <1>4 DEF Claim

LEMMA FinalizeAttempts ==
    ASSUME OwnerInv, NEW w \in Workers, Finalize(w)
    PROVE  AttemptStep
<1> DEFINE e == wk[w].exec
           row == FinalRow(execs[e], wk[w].result)
<1>1. CASE Owns(w) /\ LifecycleCheck(row)
    <2>1. attempts' = [attempts EXCEPT ![e][wk[w].attempt] = row.status]
        BY <1>1 DEF Finalize, FinalAttempt
    <2>2. row.status \in {"succeeded", "failed", "cancelled"}
        BY <1>1, OwnedFinal, FinalRowLive
    <2> HIDE DEF row
    <2>3. QED
        BY <1>1, <2>1, <2>2, OwnedFinal DEF AttemptStep, OwnerInv, TypeOK
<1>2. CASE ~(Owns(w) /\ LifecycleCheck(row))
    BY <1>2 DEF Finalize, AttemptStep
<1>3. QED
    BY <1>1, <1>2

LEMMA NextAttempts ==
    ASSUME OwnerInv, [Next]_vars
    PROVE  AttemptStep
<1>1. CASE UNCHANGED attempts
    BY <1>1 DEF AttemptStep
<1>2. ASSUME NEW w \in Workers, Claim(w) \/ Finalize(w)
      PROVE  AttemptStep
    BY <1>2, ClaimAttempts, FinalizeAttempts
<1>3. QED
    BY <1>1, <1>2
       DEF Next, vars, execVars, Api, EnqueueTrainingExecution, CancelTrainingExecution,
           RetryTrainingExecution, SelectCandidate, ClaimSkips, WorkerCrash, WorkerRestart,
           Process, RuntimeMissing, CheckClaim, CheckpointRaises, CopyInput, CopyFails,
           PersistInput, RuntimeReturns, CheckResult, RenewExecutionLease, Tick

\* Workers that claim nothing new keep or drop the claim they remember.
ClaimsStay ==
    \A v \in Workers : wk'[v].phase \in WorkingPhase =>
        /\ wk[v].phase \in WorkingPhase
        /\ wk'[v].exec = wk[v].exec
        /\ wk'[v].attempt = wk[v].attempt

LEMMA KeptClaims ==
    ASSUME OwnerInv, AttemptStep, ClaimsStay
    PROVE  KnownAttempts' /\ DistinctClaims'
<1>1. \A v \in Workers : wk[v].phase \in WorkingPhase =>
                            wk[v].exec \in Execs /\ wk[v].attempt \in Numbers
    BY DEF OwnerInv, TypeOK, WorkingPhase
<1>2. QED
    BY <1>1 DEF OwnerInv, AttemptStep, ClaimsStay, KnownAttempts, DistinctClaims

\* A worker that holds no claim afterwards.
LEMMA DroppedClaim ==
    ASSUME OwnerInv, NEW w \in Workers, wk'[w].phase \notin WorkingPhase,
           \A v \in Workers \ {w} : wk'[v] = wk[v]
    PROVE  ClaimsStay
BY DEF ClaimsStay

LEMMA AbortStays ==
    ASSUME OwnerInv, NEW w \in Workers, NEW c, Abort(w, c)
    PROVE  ClaimsStay
<1>1. wk[w] \in Worker /\ wk \in [Workers -> Worker]
    BY DEF OwnerInv, TypeOK
<1>2. wk' = [wk EXCEPT ![w] = [wk[w] EXCEPT !.phase = "aborted", !.result = c]]
    BY <1>1 DEF Abort
<1>3. [wk[w] EXCEPT !.phase = "aborted", !.result = c].phase = "aborted"
    BY <1>1 DEF Worker
<1>4. wk'[w].phase = "aborted" /\ \A v \in Workers \ {w} : wk'[v] = wk[v]
    BY <1>1, <1>2, <1>3
<1>5. QED
    BY <1>4, DroppedClaim DEF WorkingPhase

\* A claim takes a number that no worker remembers.
LEMMA NewClaim ==
    ASSUME OwnerInv, AttemptStep, NEW w \in Workers, ClaimRuns(w)
    PROVE  KnownAttempts' /\ DistinctClaims'
<1> DEFINE e == wk[w].exec
           n == ClaimNumber(execs[e])
           fits == attempts[e][n] = "none" /\ ~OtherActive(e)
                   /\ LifecycleCheck(ClaimedRow(execs[e]))
<1>1. CASE fits
    <2>1. e \in Execs /\ n \in Numbers
        BY PickedRow, ClaimedRowLive DEF OwnerInv, ClaimRuns
    <2>2. /\ wk' = [wk EXCEPT ![w] = Claimed(e, n)]
          /\ attempts' = [attempts EXCEPT ![e] = [Reclaimed(e) EXCEPT ![n] = "running"]]
        BY <1>1 DEF ClaimRuns
    <2>3. attempts[e][n] = "none"
        BY <1>1
    <2> HIDE DEF n
    <2>4. wk'[w].exec = e /\ wk'[w].attempt = n /\ \A v \in Workers \ {w} : wk'[v] = wk[v]
        BY <2>2 DEF Claimed, OwnerInv, TypeOK
    <2>5. attempts'[e][n] = "running"
        BY <2>1, <2>2, ReclaimedStates DEF OwnerInv, TypeOK
    <2>6. \A v \in Workers : wk[v].phase \in WorkingPhase =>
            /\ wk[v].exec \in Execs /\ wk[v].attempt \in Numbers
            /\ attempts[wk[v].exec][wk[v].attempt] # "none"
        BY DEF OwnerInv, TypeOK, WorkingPhase, KnownAttempts
    <2>7. KnownAttempts'
        BY <2>4, <2>5, <2>6 DEF KnownAttempts, AttemptStep
    <2>8. DistinctClaims'
        BY <2>3, <2>4, <2>6 DEF OwnerInv, DistinctClaims
    <2>9. QED
        BY <2>7, <2>8
<1>2. CASE ~fits
    <2>1. Abort(w, "unique")
        BY <1>2 DEF ClaimRuns
    <2>2. QED
        BY <2>1, AbortStays, KeptClaims
<1>3. QED
    BY <1>1, <1>2

LEMMA IdleStays ==
    ASSUME OwnerInv, NEW w \in Workers, wk' = [wk EXCEPT ![w] = Idle]
    PROVE  ClaimsStay
BY DEF OwnerInv, TypeOK, Idle, WorkingPhase, ClaimsStay

LEMMA PhaseStays ==
    ASSUME OwnerInv, NEW w \in Workers, wk[w].phase \in WorkingPhase, NEW p, NEW r,
           wk' = [wk EXCEPT ![w].phase = p] \/ wk' = [wk EXCEPT ![w].phase = p, ![w].result = r]
    PROVE  ClaimsStay
BY DEF OwnerInv, TypeOK, Worker, ClaimsStay

LEMMA NextClaims ==
    ASSUME OwnerInv, [Next]_vars
    PROVE  KnownAttempts' /\ DistinctClaims'
<1>1. AttemptStep
    BY NextAttempts
<1>2. CASE UNCHANGED wk
    BY <1>1, <1>2, KeptClaims DEF ClaimsStay
<1>3. ASSUME NEW w \in Workers, ClaimRuns(w)
      PROVE  KnownAttempts' /\ DistinctClaims'
    BY <1>1, <1>3, NewClaim
<1>4. ASSUME NEW w \in Workers, SelectCandidate(w) \/ ClaimRefuses(w)
      PROVE  KnownAttempts' /\ DistinctClaims'
    <2>1. CASE SelectCandidate(w)
        <3>1. PICK c \in Execs : wk' = [wk EXCEPT ![w] = Picked(c)]
            BY <2>1 DEF SelectCandidate
        <3>2. wk'[w].phase = "picked" /\ \A v \in Workers \ {w} : wk'[v] = wk[v]
            BY <3>1 DEF Picked, OwnerInv, TypeOK
        <3>3. QED
            BY <1>1, <3>2, DroppedClaim, KeptClaims DEF WorkingPhase
    <2>2. CASE ClaimRefuses(w)
        <3>1. Abort(w, "check") \/ wk' = [wk EXCEPT ![w] = Idle]
            BY <2>2 DEF ClaimRefuses
        <3>2. QED
            BY <1>1, <3>1, AbortStays, IdleStays, KeptClaims
    <2>3. QED
        BY <1>4, <2>1, <2>2
<1>5. ASSUME NEW w \in Workers,
             ClaimSkips(w) \/ ClaimCancels(w) \/ Finalize(w) \/ WorkerCrash(w) \/ WorkerRestart(w)
      PROVE  KnownAttempts' /\ DistinctClaims'
    <2>1. ClaimsStay
        BY <1>5, IdleStays DEF ClaimSkips, ClaimCancels, Finalize, WorkerCrash, WorkerRestart
    <2>2. QED
        BY <1>1, <2>1, KeptClaims
<1>6. ASSUME NEW w \in Workers, Process(w), ~Finalize(w)
      PROVE  KnownAttempts' /\ DistinctClaims'
    <2>1. ClaimsStay
        BY <1>6, PhaseStays
           DEF Process, RuntimeMissing, CheckClaim, CheckpointRaises, CopyInput, CopyFails,
               PersistInput, RuntimeReturns, CheckResult, Finish, SetPhase, WorkingPhase
    <2>2. QED
        BY <1>1, <2>1, KeptClaims
<1>7. QED
    BY <1>2, <1>3, <1>4, <1>5, <1>6
       DEF Next, vars, execVars, Api, EnqueueTrainingExecution, CancelTrainingExecution,
           RetryTrainingExecution, Claim, RenewExecutionLease, Tick

LEMMA NextOwner == OwnerInv /\ [Next]_vars => OwnerInv'
BY NextTypeOK, NextRows, NextClaims DEF OwnerInv

(***************************************************************************)
(* The theorems.                                                           *)
(***************************************************************************)

\* An attempt is running exactly when it is the current one of an execution
\* that runs.
THEOREM OneRunningAttempt == Spec => []OwnerAttempt
<1>1. OwnerInv => OwnerAttempt
    BY DEF OwnerInv, RowInv
<1>2. QED
    BY <1>1, InitOwner, NextOwner, PTL DEF Spec

\* No two workers hold a valid claim on one execution.
THEOREM OneOwnerHolds == Spec => []OneOwner
<1>1. OwnerInv => OneOwner
    BY DEF OwnerInv, DistinctClaims, OneOwner, Owns, ValidClaim
<1>2. QED
    BY <1>1, InitOwner, NextOwner, PTL DEF Spec

\* Ended attempts never change and their numbers are never used again.
THEOREM AttemptHistoryHolds == Spec => AttemptHistory
<1>1. OwnerInv /\ [Next]_vars =>
        [\A e \in Execs, n \in Numbers :
            attempts[e][n] \notin {"none", "running"} => attempts'[e][n] = attempts[e][n]]_vars
    BY NextAttempts DEF AttemptStep
<1>2. QED
    BY <1>1, InitOwner, NextOwner, PTL DEF Spec, AttemptHistory

(***************************************************************************)
(* A requested cancellation.                                               *)
(***************************************************************************)

StaysStopping(e) == execs'[e].status \in {"cancel_requested", "cancelled", "failed"}

\* A write of a stopping row decides for that row, and no other is touched.
LEMMA StoppingWrite ==
    ASSUME TypeOK, NEW e \in Execs, execs[e].status = "cancel_requested",
           NEW f \in Execs, NEW row, SetExec(f, row),
           f = e => row.status \in {"cancel_requested", "cancelled", "failed"}
    PROVE  StaysStopping(e)
BY DEF TypeOK, SetExec, StaysStopping

LEMMA StoppingApi ==
    ASSUME TypeOK, NEW e \in Execs, execs[e].status = "cancel_requested", Api
    PROVE  StaysStopping(e)
<1>1. PICK f \in Execs : f # e /\ \E row : SetExec(f, row)
    BY DEF Api, EnqueueTrainingExecution, NextExec, CancelTrainingExecution,
           RetryTrainingExecution
<1>2. PICK row : SetExec(f, row)
    BY <1>1
<1>3. QED
    BY <1>1, <1>2, StoppingWrite

LEMMA StoppingClaim ==
    ASSUME TypeOK, NEW e \in Execs, execs[e].status = "cancel_requested",
           NEW w \in Workers, Claim(w)
    PROVE  StaysStopping(e)
<1> DEFINE f == wk[w].exec
<1>1. f \in Execs /\ execs[f] \in ExecRow
    BY PickedRow DEF Claim, ClaimRefuses, ClaimCancels, ClaimRuns, LiveRow
<1>2. CASE UNCHANGED execs
    BY <1>2 DEF StaysStopping
<1>3. CASE ClaimRefuses(w)
    <2>1. RefusedRow(execs[f]).status = "failed"
        BY <1>1 DEF RefusedRow, ExecRow
    <2>2. SetExec(f, RefusedRow(execs[f])) \/ UNCHANGED execs
        BY <1>3 DEF ClaimRefuses, Abort
    <2>3. QED
        BY <1>1, <1>2, <2>1, <2>2, StoppingWrite
<1>4. CASE ClaimCancels(w)
    <2> DEFINE row == [execs[f] EXCEPT !.status = "cancelled", !.error = "cancelled",
                                       !.current = 0, !.lease = 0]
    <2>1. row.status = "cancelled" /\ SetExec(f, row)
        BY <1>1, <1>4 DEF ClaimCancels, ExecRow
    <2>2. QED
        BY <1>1, <2>1, StoppingWrite
<1>5. CASE ClaimRuns(w)
    <2>1. SetExec(f, ClaimedRow(execs[f])) \/ UNCHANGED execs
        BY <1>5 DEF ClaimRuns, Abort
    <2>2. f # e
        BY <1>5 DEF ClaimRuns
    <2>3. QED
        BY <1>1, <1>2, <2>1, <2>2, StoppingWrite
<1>6. QED
    BY <1>3, <1>4, <1>5 DEF Claim

LEMMA StoppingFinal ==
    ASSUME TypeOK, NEW e \in Execs, execs[e].status = "cancel_requested",
           NEW w \in Workers, Finalize(w)
    PROVE  StaysStopping(e)
<1> DEFINE f == wk[w].exec
           row == FinalRow(execs[f], wk[w].result)
<1>1. f \in Execs /\ execs[f] \in ExecRow /\ wk[w].result \in Results
    BY PickedRow DEF Finalize, LiveRow, TypeOK
<1>2. row.status = FinalStatus[FinalResult(execs[f], wk[w].result)]
    BY <1>1 DEF FinalRow, ExecRow
<1>3. execs[f].status = "cancel_requested" =>
        FinalResult(execs[f], wk[w].result) \in {"failed", "cancelled", "shutdown"}
    BY <1>1 DEF FinalResult, Results
<1>4. \A r \in {"failed", "cancelled", "shutdown"} : FinalStatus[r] \in {"failed", "cancelled"}
    BY DEF FinalStatus
<1>5. f = e => row.status \in {"failed", "cancelled"}
    BY <1>2, <1>3, <1>4
<1>6. SetExec(f, row) \/ UNCHANGED execs
    BY DEF Finalize
<1> HIDE DEF row
<1>7. QED
    BY <1>1, <1>5, <1>6, StoppingWrite DEF StaysStopping

LEMMA StoppingLease ==
    ASSUME TypeOK, NEW e \in Execs, execs[e].status = "cancel_requested",
           (\E w \in Workers : RenewExecutionLease(w)) \/ Tick
    PROVE  StaysStopping(e)
<1>1. \A f \in Execs : execs[f] \in ExecRow
    BY DEF TypeOK
<1>2. ASSUME NEW w \in Workers, RenewExecutionLease(w)
      PROVE  execs'[e] = execs[e] \/ execs'[e] = [execs[e] EXCEPT !.lease = LeaseTicks]
    BY <1>2 DEF RenewExecutionLease, SetExec, TypeOK
<1>3. ASSUME Tick
      PROVE  execs'[e] = execs[e] \/ execs'[e] = [execs[e] EXCEPT !.lease = execs[e].lease - 1]
    BY <1>3 DEF Tick
<1>4. QED
    BY <1>1, <1>2, <1>3 DEF ExecRow, StaysStopping

\* A success that the runtime reports after the request is never recorded.
THEOREM CancelNeverSucceedsHolds == Spec => CancelNeverSucceeds
<1>1. ASSUME TypeOK, [Next]_vars, NEW e \in Execs, execs[e].status = "cancel_requested"
      PROVE  StaysStopping(e)
    <2>1. CASE UNCHANGED execs
        BY <1>1, <2>1 DEF StaysStopping
    <2>2. CASE Api
        BY <1>1, <2>2, StoppingApi
    <2>3. ASSUME NEW w \in Workers, Claim(w) \/ Finalize(w)
          PROVE  StaysStopping(e)
        BY <1>1, <2>3, StoppingClaim, StoppingFinal
    <2>4. CASE (\E w \in Workers : RenewExecutionLease(w)) \/ Tick
        BY <1>1, <2>4, StoppingLease
    <2>5. QED
        BY <1>1, <2>1, <2>2, <2>3, <2>4
           DEF Next, vars, execVars, SelectCandidate, ClaimSkips, WorkerCrash, WorkerRestart,
               Process, RuntimeMissing, CheckClaim, CheckpointRaises, CopyInput, CopyFails,
               PersistInput, RuntimeReturns, CheckResult
<1>2. TypeOK /\ [Next]_vars =>
        [\A e \in Execs : execs[e].status = "cancel_requested" =>
            execs'[e].status \in {"cancel_requested", "cancelled", "failed"}]_vars
    BY <1>1 DEF StaysStopping
<1>3. QED
    BY <1>2, InitTypeOK, NextTypeOK, PTL DEF Spec, CancelNeverSucceeds

(***************************************************************************)
(* The numbers of attempts.  AttemptsAgree is not inductive: a success is  *)
(* recorded for the current attempt, which must be the latest; a row that  *)
(* is cancelled while queued must have a number no attempt ever used, also *)
(* after a retry, and so must every number behind it.                      *)
(***************************************************************************)

\* The row r of an execution and the statuses h of its attempts.
NumbersFit(r, h) ==
    /\ r.status = "absent" => \A n \in Numbers : h[n] = "none"
    /\ r.status # "absent" => \A n \in Numbers : n > r.number => h[n] = "none"
    /\ r.status = "queued" => h[r.number] = "none"
    /\ r.status \in OwnedStatus => r.current = r.number
    /\ r.status = "succeeded" => h[r.number] = "succeeded"
    /\ r.status = "cancelled" => h[r.number] \in {"none", "cancelled", "reclaimed"}

NumbersAgree == \A e \in Execs : NumbersFit(execs[e], attempts[e])
NumberInv == OwnerInv /\ NumbersAgree

\* A write of one row, and of the statuses of its attempts.
LEMMA NumbersWrite ==
    ASSUME NumberInv, NEW e \in Execs, NEW row, SetExec(e, row),
           NEW h, attempts' = [attempts EXCEPT ![e] = h], NumbersFit(row, h)
    PROVE  NumbersAgree'
<1>1. /\ execs'[e] = row /\ attempts'[e] = h
      /\ \A f \in Execs \ {e} : execs'[f] = execs[f] /\ attempts'[f] = attempts[f]
    BY DEF NumberInv, OwnerInv, TypeOK, SetExec
<1>2. QED
    BY <1>1 DEF NumberInv, NumbersAgree

\* The attempts stay, and so does what a row says of their numbers.
LEMMA NumbersStay ==
    ASSUME NumberInv, UNCHANGED attempts,
           \A f \in Execs : /\ execs'[f].status = execs[f].status
                            /\ execs'[f].number = execs[f].number
                            /\ execs'[f].current = execs[f].current
    PROVE  NumbersAgree'
BY DEF NumberInv, NumbersAgree, NumbersFit

LEMMA ApiNumbers ==
    ASSUME NumberInv, Api
    PROVE  NumbersAgree'
<1>1. UNCHANGED attempts /\ attempts \in [Execs -> [Numbers -> AttemptStatus]]
    BY DEF Api, EnqueueTrainingExecution, CancelTrainingExecution, RetryTrainingExecution,
           NumberInv, OwnerInv, TypeOK
<1>2. ASSUME NEW e \in Execs, NEW row, SetExec(e, row), NumbersFit(row, attempts[e])
      PROVE  NumbersAgree'
    <2>1. attempts' = [attempts EXCEPT ![e] = attempts[e]]
        BY <1>1
    <2>2. QED
        BY <1>2, <2>1, NumbersWrite
<1>3. ASSUME NEW u \in Users, NEW j \in Jobs, EnqueueTrainingExecution(u, j)
      PROVE  NumbersAgree'
    <2>1. PICK e \in Execs : execs[e].status = "absent" /\ SetExec(e, QueuedRow(u, j))
        BY <1>3 DEF EnqueueTrainingExecution, NextExec
    <2>2. \A n \in Numbers : attempts[e][n] = "none"
        BY <2>1 DEF NumberInv, NumbersAgree, NumbersFit
    <2>3. QueuedRow(u, j).status = "queued" /\ QueuedRow(u, j).number \in Numbers
        BY ExecutionAssumption DEF QueuedRow, Numbers
    <2>4. NumbersFit(QueuedRow(u, j), attempts[e])
        BY <2>2, <2>3 DEF NumbersFit, OwnedStatus
    <2>5. QED
        BY <1>2, <2>1, <2>4
<1>4. ASSUME NEW e \in Execs, CancelTrainingExecution(e)
      PROVE  NumbersAgree'
    <2> DEFINE done == [execs[e] EXCEPT !.status = "cancelled", !.error = "cancelled"]
               asked == [execs[e] EXCEPT !.status = "cancel_requested", !.cancelAt = TRUE]
    <2>1. /\ execs[e].status \in {"queued", "running"} /\ execs[e] \in ExecRow
          /\ IF execs[e].status = "queued" THEN SetExec(e, done) ELSE SetExec(e, asked)
          /\ NumbersFit(execs[e], attempts[e])
        BY <1>4 DEF CancelTrainingExecution, NumberInv, NumbersAgree, OwnerInv, TypeOK
    <2>2. CASE execs[e].status = "queued"
        <3>1. done.status = "cancelled" /\ done.number = execs[e].number
            BY <2>1 DEF ExecRow
        <3>2. NumbersFit(done, attempts[e])
            BY <2>1, <2>2, <3>1 DEF NumbersFit, OwnedStatus
        <3>3. QED
            BY <1>2, <2>1, <2>2, <3>2
    <2>3. CASE execs[e].status = "running"
        <3>1. /\ asked.status = "cancel_requested" /\ asked.number = execs[e].number
              /\ asked.current = execs[e].current
            BY <2>1 DEF ExecRow
        <3>2. NumbersFit(asked, attempts[e])
            BY <2>1, <2>3, <3>1 DEF NumbersFit, OwnedStatus
        <3>3. QED
            BY <1>2, <2>1, <2>3, <3>2
    <2>4. QED
        BY <2>1, <2>2, <2>3
<1>5. ASSUME NEW e \in Execs, RetryTrainingExecution(e)
      PROVE  NumbersAgree'
    <2>1. /\ execs[e].status \in {"failed", "cancelled"} /\ execs[e] \in ExecRow
          /\ execs[e].number < MaxAttempts /\ execs[e].number \in Numbers
          /\ SetExec(e, RetriedRow(execs[e])) /\ NumbersFit(execs[e], attempts[e])
        BY <1>5 DEF RetryTrainingExecution, NumberInv, NumbersAgree, OwnerInv, TypeOK
    <2>2. /\ RetriedRow(execs[e]).status = "queued"
          /\ RetriedRow(execs[e]).number = execs[e].number + 1
        BY <2>1 DEF ExecRow, RetriedRow
    <2>3. \A n \in Numbers : n >= execs[e].number + 1 => attempts[e][n] = "none"
        BY <2>1 DEF NumbersFit, Numbers
    <2>4. NumbersFit(RetriedRow(execs[e]), attempts[e])
        BY <2>1, <2>2, <2>3, ExecutionAssumption DEF NumbersFit, OwnedStatus, Numbers
    <2>5. QED
        BY <1>2, <2>1, <2>4
<1>6. QED
    BY <1>3, <1>4, <1>5 DEF Api

LEMMA ClaimNumbers ==
    ASSUME NumberInv, NEW w \in Workers, Claim(w)
    PROVE  NumbersAgree'
<1> DEFINE e == wk[w].exec
<1>1. e \in Execs /\ LiveRow(execs[e]) /\ OwnerInv /\ NumbersFit(execs[e], attempts[e])
    BY PickedRow DEF NumberInv, NumbersAgree, OwnerInv, Claim, ClaimRefuses, ClaimCancels, ClaimRuns
<1>2. execs[e] \in ExecRow /\ execs[e].number \in Numbers /\ execs[e].status # "absent"
    BY <1>1 DEF LiveRow
<1>3. CASE UNCHANGED <<execs, attempts>>
    BY <1>3, NumbersStay
<1>4. CASE SetExec(e, RefusedRow(execs[e])) /\ UNCHANGED attempts
    <2>1. RefusedRow(execs[e]).status = "failed" /\ RefusedRow(execs[e]).number = execs[e].number
        BY <1>2 DEF RefusedRow, ExecRow
    <2>2. NumbersFit(RefusedRow(execs[e]), attempts[e])
        BY <1>1, <1>2, <2>1 DEF NumbersFit, OwnedStatus
    <2>3. attempts' = [attempts EXCEPT ![e] = attempts[e]]
        BY <1>4 DEF NumberInv, OwnerInv, TypeOK
    <2>4. QED
        BY <1>1, <1>4, <2>2, <2>3, NumbersWrite
<1>5. CASE ClaimCancels(w)
    <2> DEFINE row == [execs[e] EXCEPT !.status = "cancelled", !.error = "cancelled",
                                       !.current = 0, !.lease = 0]
    <2>1. row.status = "cancelled" /\ row.number = execs[e].number
        BY <1>2 DEF ExecRow
    <2>2. SetExec(e, row) /\ attempts' = [attempts EXCEPT ![e] = Reclaimed(e)]
        BY <1>5 DEF ClaimCancels
    <2>3. /\ execs[e].status \in OwnedStatus /\ execs[e].current = execs[e].number
          /\ attempts[e][execs[e].number] = "running"
        BY <1>1, <1>2, <1>5
        DEF ClaimCancels, OwnedStatus, NumbersFit, OwnerInv, RowInv, OwnerAttempt
    <2>4. Reclaimed(e)[execs[e].number] = "reclaimed"
        BY <1>2, <2>3 DEF Reclaimed
    <2>5. NumbersFit(row, Reclaimed(e))
        BY <1>1, <1>2, <2>1, <2>4, ReclaimedStates DEF NumbersFit, OwnedStatus
    <2>6. QED
        BY <1>1, <2>2, <2>5, NumbersWrite
<1>6. ASSUME NEW n, n = ClaimNumber(execs[e]), n \in Numbers, SetExec(e, ClaimedRow(execs[e])),
             attempts' = [attempts EXCEPT ![e] = [Reclaimed(e) EXCEPT ![n] = "running"]]
      PROVE  NumbersAgree'
    <2> DEFINE h == [Reclaimed(e) EXCEPT ![n] = "running"]
    <2>1. /\ ClaimedRow(execs[e]).status = "running" /\ ClaimedRow(execs[e]).number = n
          /\ ClaimedRow(execs[e]).current = n
        BY <1>2, <1>6 DEF ClaimedRow, ExecRow
    <2>2. n \in Numbers /\ n >= execs[e].number
        BY <1>2, <1>6 DEF ClaimNumber, Numbers
    <2>3. \A m \in Numbers : m > n => h[m] = "none"
        <3> SUFFICES ASSUME NEW m \in Numbers, m > n PROVE h[m] = "none"
            OBVIOUS
        <3>1. attempts[e][m] = "none"
            <4>1. m > execs[e].number
                BY <1>2, <2>2 DEF Numbers
            <4>2. QED
                BY <1>1, <1>2, <4>1 DEF NumbersFit
        <3>2. Reclaimed(e)[m] = "none"
            BY <1>1, <3>1, ReclaimedStates
        <3>3. QED
            BY <1>1, <1>6, <3>2, ReclaimedStates DEF Numbers
    <2>4. NumbersFit(ClaimedRow(execs[e]), h)
        BY <2>1, <2>3 DEF NumbersFit
    <2>5. QED
        BY <1>1, <1>6, <2>4, NumbersWrite
<1>7. CASE ClaimRuns(w)
    <2>1. ClaimNumber(execs[e]) \in Numbers
        BY <1>1, <1>7, ClaimedRowLive DEF ClaimRuns, OwnerInv
    <2>2. QED
        BY <1>3, <1>6, <1>7, <2>1 DEF ClaimRuns, Abort
<1>8. QED
    BY <1>3, <1>4, <1>5, <1>7 DEF Claim, ClaimRefuses, Abort

LEMMA FinalizeNumbers ==
    ASSUME NumberInv, NEW w \in Workers, Finalize(w)
    PROVE  NumbersAgree'
<1> DEFINE e == wk[w].exec
           n == wk[w].attempt
           row == FinalRow(execs[e], wk[w].result)
           h == [attempts[e] EXCEPT ![n] = row.status]
<1>1. CASE Owns(w) /\ LifecycleCheck(row)
    <2>1. SetExec(e, row) /\ attempts' = [attempts EXCEPT ![e] = h]
        BY <1>1 DEF Finalize, FinalAttempt
    <2>2. /\ e \in Execs /\ n \in Numbers /\ execs[e] \in ExecRow /\ execs[e].status # "absent"
          /\ attempts[e] \in [Numbers -> AttemptStatus] /\ NumbersFit(execs[e], attempts[e])
        BY <1>1, OwnedFinal DEF NumberInv, NumbersAgree, OwnerInv, TypeOK, LiveRow
    <2>3. execs[e].number = n
        BY <1>1, <2>2 DEF Owns, ValidClaim, NumbersFit
    <2>4. row.number = n /\ row.status \in {"succeeded", "failed", "cancelled"}
        <3>1. row.number = n
            BY <2>2, <2>3 DEF FinalRow, ExecRow
        <3>2. QED
            BY <1>1, <3>1, OwnedFinal, FinalRowLive DEF NumberInv
    <2> HIDE DEF row
    <2>5. h[n] = row.status /\ \A m \in Numbers \ {n} : h[m] = attempts[e][m]
        BY <2>2
    <2>6. \A m \in Numbers : m > n => h[m] = "none"
        BY <2>2, <2>3, <2>5 DEF NumbersFit, Numbers
    <2> HIDE DEF h
    <2>7. NumbersFit(row, h)
        BY <2>4, <2>5, <2>6 DEF NumbersFit, OwnedStatus
    <2>8. QED
        BY <2>1, <2>2, <2>7, NumbersWrite
<1>2. CASE ~(Owns(w) /\ LifecycleCheck(row))
    BY <1>2, NumbersStay DEF Finalize
<1>3. QED
    BY <1>1, <1>2

LEMMA LeaseNumbers ==
    ASSUME NumberInv, (\E w \in Workers : RenewExecutionLease(w)) \/ Tick
    PROVE  NumbersAgree'
<1>1. UNCHANGED attempts /\ \A f \in Execs : execs[f] \in ExecRow
    BY DEF RenewExecutionLease, Tick, NumberInv, OwnerInv, TypeOK
<1>2. ASSUME NEW w \in Workers, RenewExecutionLease(w), NEW f \in Execs
      PROVE  execs'[f] = execs[f] \/ execs'[f] = [execs[f] EXCEPT !.lease = LeaseTicks]
    BY <1>2 DEF RenewExecutionLease, SetExec, NumberInv, OwnerInv, TypeOK
<1>3. ASSUME Tick, NEW f \in Execs
      PROVE  execs'[f] = execs[f] \/ execs'[f] = [execs[f] EXCEPT !.lease = execs[f].lease - 1]
    BY <1>3 DEF Tick
<1>4. \A f \in Execs : /\ execs'[f].status = execs[f].status
                       /\ execs'[f].number = execs[f].number
                       /\ execs'[f].current = execs[f].current
    BY ZenonT(40), <1>1, <1>2, <1>3 DEF ExecRow
<1>5. QED
    BY <1>1, <1>4, NumbersStay

LEMMA NextNumbers == NumberInv /\ [Next]_vars => NumberInv'
<1> SUFFICES ASSUME NumberInv, [Next]_vars PROVE NumbersAgree'
    BY NextOwner DEF NumberInv
<1>1. CASE UNCHANGED <<execs, attempts>>
    BY <1>1, NumbersStay
<1>2. CASE Api
    BY <1>2, ApiNumbers
<1>3. ASSUME NEW w \in Workers, Claim(w) \/ Finalize(w)
      PROVE  NumbersAgree'
    BY <1>3, ClaimNumbers, FinalizeNumbers
<1>4. CASE (\E w \in Workers : RenewExecutionLease(w)) \/ Tick
    BY <1>4, LeaseNumbers
<1>5. QED
    BY <1>1, <1>2, <1>3, <1>4
       DEF Next, vars, execVars, SelectCandidate, ClaimSkips, WorkerCrash, WorkerRestart,
           Process, RuntimeMissing, CheckClaim, CheckpointRaises, CopyInput, CopyFails,
           PersistInput, RuntimeReturns, CheckResult

\* A succeeded execution is the success of its latest attempt, and the latest
\* attempt of a cancelled one did not succeed behind the cancellation.
THEOREM AttemptsAgreeHolds == Spec => []AttemptsAgree
<1>1. Init => NumberInv
    BY InitOwner DEF NumberInv, NumbersAgree, NumbersFit, Init, Absent, OwnedStatus
<1>2. NumberInv => AttemptsAgree
    BY DEF NumberInv, NumbersAgree, NumbersFit, AttemptsAgree
<1>3. QED
    BY <1>1, <1>2, NextNumbers, PTL DEF Spec

(***************************************************************************)
(* The bytes of a job and the rows that authorise their removal, for every *)
(* number of purge processes and whatever the executions do.               *)
(***************************************************************************)

DeletionStatus == {"deletion_authorized", "tombstone_bound"}
LatePhase == {"authorized", "moving", "moved", "bound", "unlinking", "unlinked"}

(***************************************************************************)
(* The invariant.  A process keeps, over any delay, what its last          *)
(* transaction saw: from its authorization on, the reservation authorises  *)
(* deletion or another process has finished the purge; and once it has     *)
(* unlinked, the bytes stay gone.                                          *)
(***************************************************************************)

Authorization ==
    \A o \in Operators : cli[o].phase \in LatePhase =>
        \/ reservations[cli[o].job].status \in DeletionStatus
        \/ jobs[cli[o].job].review = "purged"

UnlinkedIsGone == \A o \in Operators : cli[o].phase = "unlinked" => bytes[cli[o].job] = "gone"

\* The stages of an operation go before its final bundle.
StagesFirst == \A j \in Jobs : reservations[j].status \in DeletionStatus => reservations[j].staged

BytesInv ==
    /\ JobTypeOK
    /\ BytesLeaveUnderAuthority
    /\ PurgedIsGone
    /\ Authorization
    /\ UnlinkedIsGone
    /\ StagesFirst

LEMMA InitBytes == Init => BytesInv
BY InitTypeOK DEF Init, JobInit, TypeOK, BytesInv, BytesLeaveUnderAuthority, PurgedIsGone,
                  Authorization, UnlinkedIsGone, StagesFirst, NoReservation, IdleCli,
                  LatePhase, DeletionStatus

LEMMA StutterBytes ==
    ASSUME BytesInv, UNCHANGED jobVars
    PROVE  BytesInv'
BY DEF BytesInv, JobTypeOK, BytesLeaveUnderAuthority, PurgedIsGone, Authorization,
       UnlinkedIsGone, StagesFirst, jobVars

\* A process that works on a job works on one that exists.
LEMMA CliJob ==
    ASSUME JobTypeOK, NEW o \in Operators, cli[o].phase # "idle"
    PROVE  cli[o].job \in Jobs /\ cli[o] \in Cli
BY DEF JobTypeOK

LEMMA LateNotIdle ==
    ASSUME JobTypeOK, NEW o \in Operators, cli[o].phase \in LatePhase
    PROVE  cli[o].job \in Jobs
BY CliJob DEF LatePhase

LEMMA LeaveCli ==
    ASSUME JobTypeOK, NEW o \in Operators, Leave(o)
    PROVE  /\ cli'[o].phase = "idle"
           /\ \A q \in Operators \ {o} : cli'[q] = cli[q]
BY DEF Leave, IdleCli, JobTypeOK

LEMMA AdvanceCli ==
    ASSUME JobTypeOK, NEW o \in Operators, NEW p, Advance(o, p)
    PROVE  /\ cli'[o].phase = p /\ cli'[o].job = cli[o].job
           /\ \A q \in Operators \ {o} : cli'[q] = cli[q]
BY DEF Advance, JobTypeOK, Cli

LEMMA ReservationSet ==
    ASSUME JobTypeOK, NEW j \in Jobs, NEW s, SetReservation(j, s)
    PROVE  /\ reservations'[j].status = s /\ reservations'[j].staged = reservations[j].staged
           /\ \A k \in Jobs \ {j} : reservations'[k] = reservations[k]
BY DEF SetReservation, JobTypeOK, Reservation

LEMMA ReviewSet ==
    ASSUME JobTypeOK, NEW j \in Jobs, NEW s, SetReview(j, s)
    PROVE  /\ jobs'[j].review = s
           /\ \A k \in Jobs \ {j} : jobs'[k].review = jobs[k].review
BY DEF SetReview, JobTypeOK

LEMMA JobBytes ==
    ASSUME BytesInv, NEW active, JobNext(active)
    PROVE  BytesInv'
<1> USE DEF BytesInv
<1>0. JobTypeOK'
    BY JobTypePreserved
<1>1. CASE ArchiveDepartment \/ \E u \in Users : RevokeAdmin(u) \/ ReinstateAdmin(u)
    BY <1>0, <1>1 DEF ArchiveDepartment, RevokeAdmin, ReinstateAdmin, BytesLeaveUnderAuthority,
       PurgedIsGone, Authorization, UnlinkedIsGone, StagesFirst
<1>2. ASSUME NEW k \in Jobs, NEW s, SetReview(k, s), s # "purged", jobs[k].review # "purged",
             UNCHANGED <<reservations, bytes, cli>>
      PROVE  BytesInv'
    <2>1. /\ jobs'[k].review = s
          /\ \A l \in Jobs \ {k} : jobs'[l].review = jobs[l].review
        BY <1>2, ReviewSet
    <2>2. QED
        BY <1>0, <1>2, <2>1, LateNotIdle DEF BytesLeaveUnderAuthority, PurgedIsGone,
           Authorization, UnlinkedIsGone, StagesFirst
<1>3. ASSUME NEW k \in Jobs, NEW d \in {"approve", "reject", "archive"},
             ReviewTrainingJob(k, d, active)
      PROVE  BytesInv'
    <2>1. "purged" \notin ReviewTransition(d).from /\ ReviewTransition(d).to # "purged"
        BY DEF ReviewTransition
    <2>2. QED
        BY <1>2, <1>3, <2>1 DEF ReviewTrainingJob
<1>4. ASSUME NEW k \in Jobs, ArchiveTrainingJob(k, active)
      PROVE  BytesInv'
    <2>1. SetReview(k, "archived") /\ jobs[k].review # "purged"
          /\ UNCHANGED <<reservations, bytes, cli>>
        BY <1>4 DEF ArchiveTrainingJob
    <2>2. QED
        BY <1>2, <2>1
<1>5. ASSUME NEW o \in Operators, NEW k \in Jobs, RegisterPurge(o, k, active)
      PROVE  BytesInv'
    <2>1. /\ reservations[k].status \notin DeletionStatus
          /\ jobs[k].review # "purged"
          /\ UNCHANGED <<jobs, bytes>>
        BY <1>5 DEF RegisterPurge, PurgeActive, ActivePurgeStatus, DeletionStatus
    <2>2. /\ reservations'[k].status = "registered"
          /\ \A l \in Jobs \ {k} : reservations'[l] = reservations[l]
        BY <1>5 DEF RegisterPurge, JobTypeOK
    <2>3. /\ cli'[o].phase = "registered"
          /\ \A q \in Operators \ {o} : cli'[q] = cli[q]
        BY <1>5 DEF RegisterPurge, JobTypeOK
    <2>4. QED
        BY <1>0, <2>1, <2>2, <2>3, LateNotIdle DEF BytesLeaveUnderAuthority, PurgedIsGone,
           Authorization, UnlinkedIsGone, StagesFirst, LatePhase, DeletionStatus
<1>6. ASSUME NEW o \in Operators, NEW k \in Jobs, ResumePurge(o, k)
      PROVE  BytesInv'
    <2>1. /\ cli'[o].phase \in {"registered", "staged"}
          /\ \A q \in Operators \ {o} : cli'[q] = cli[q]
          /\ UNCHANGED <<jobs, reservations, bytes>>
        BY <1>6 DEF ResumePurge, JobTypeOK
    <2>2. QED
        BY <1>0, <2>1, LateNotIdle DEF BytesLeaveUnderAuthority, PurgedIsGone,
           Authorization, UnlinkedIsGone, StagesFirst, LatePhase
<1>7. ASSUME NEW o \in Operators, PersistStages(o)
      PROVE  BytesInv'
    <2>1. cli[o].job \in Jobs /\ UNCHANGED <<jobs, bytes>>
        BY <1>7, CliJob DEF PersistStages, At
    <2>2. /\ reservations'[cli[o].job].status = reservations[cli[o].job].status
          /\ reservations'[cli[o].job].staged
          /\ \A l \in Jobs \ {cli[o].job} : reservations'[l] = reservations[l]
        BY <1>7, <2>1 DEF PersistStages, JobTypeOK, Reservation
    <2>3. cli'[o].phase = "staged" /\ \A q \in Operators \ {o} : cli'[q] = cli[q]
        BY <1>7, AdvanceCli DEF PersistStages
    <2>4. QED
        BY <1>0, <2>1, <2>2, <2>3, LateNotIdle DEF BytesLeaveUnderAuthority, PurgedIsGone,
           Authorization, UnlinkedIsGone, StagesFirst, LatePhase
<1>8. ASSUME NEW o \in Operators, BlockStage(o)
      PROVE  BytesInv'
    <2> DEFINE j == cli[o].job
    <2>1. j \in Jobs /\ UNCHANGED <<jobs, bytes>>
        BY <1>8, CliJob DEF BlockStage, At
    <2>2. reservations[j].status \notin DeletionStatus /\ jobs[j].review # "purged"
        BY <1>8, <2>1 DEF BlockStage, PurgeAuthority, StagesFirst
    <2>3. /\ reservations'[j].status = "terminalized"
          /\ \A l \in Jobs \ {j} : reservations'[l] = reservations[l]
        BY <1>8, <2>1, ReservationSet DEF BlockStage
    <2>4. cli'[o].phase = "idle" /\ \A q \in Operators \ {o} : cli'[q] = cli[q]
        BY <1>8, LeaveCli DEF BlockStage
    <2>5. QED
        BY <1>0, <2>1, <2>2, <2>3, <2>4, LateNotIdle DEF BytesLeaveUnderAuthority,
           PurgedIsGone, Authorization, UnlinkedIsGone, StagesFirst, LatePhase, DeletionStatus
<1>9. ASSUME NEW o \in Operators, AuthorizeFinalDeletion(o, active)
      PROVE  BytesInv'
    <2> DEFINE j == cli[o].job
    <2>1. j \in Jobs /\ UNCHANGED <<jobs, bytes>> /\ reservations[j].staged
        BY <1>9, CliJob DEF AuthorizeFinalDeletion, At
    <2>2. /\ reservations'[j].status \in DeletionStatus
          /\ reservations'[j].staged
          /\ \A l \in Jobs \ {j} : reservations'[l] = reservations[l]
        BY <1>9, <2>1, ReservationSet DEF AuthorizeFinalDeletion, DeletionStatus
    <2>3. /\ cli'[o].phase \in {"bound", "authorized"} /\ cli'[o].job = j
          /\ \A q \in Operators \ {o} : cli'[q] = cli[q]
        BY <1>9, AdvanceCli DEF AuthorizeFinalDeletion
    <2>4. QED
        BY <1>0, <2>1, <2>2, <2>3, LateNotIdle DEF BytesLeaveUnderAuthority, PurgedIsGone,
           Authorization, UnlinkedIsGone, StagesFirst, LatePhase, DeletionStatus
<1>10. ASSUME NEW o \in Operators, FenceBeforeBytes(o, active)
       PROVE  BytesInv'
    <2>1. /\ cli[o].phase \in LatePhase /\ cli'[o].phase \in {"moving", "unlinking"}
          /\ cli'[o].job = cli[o].job
          /\ \A q \in Operators \ {o} : cli'[q] = cli[q]
          /\ UNCHANGED <<jobs, reservations, bytes>>
        BY <1>10, AdvanceCli DEF FenceBeforeBytes, At, LatePhase
    <2>2. QED
        BY <1>0, <2>1 DEF BytesLeaveUnderAuthority, PurgedIsGone, Authorization,
           UnlinkedIsGone, StagesFirst, LatePhase
<1>11. ASSUME NEW o \in Operators, MoveFinal(o)
       PROVE  BytesInv'
    <2> DEFINE j == cli[o].job
    <2>1. /\ j \in Jobs /\ cli[o].phase = "moving" /\ bytes[j] # "gone"
          /\ UNCHANGED <<jobs, reservations>>
        BY <1>11, CliJob DEF MoveFinal, At
    <2>2. reservations[j].status \in DeletionStatus
        BY <2>1 DEF Authorization, LatePhase, PurgedIsGone
    <2>3. bytes'[j] = "tombstone" /\ \A l \in Jobs \ {j} : bytes'[l] = bytes[l]
        BY <1>11, <2>1 DEF MoveFinal, JobTypeOK
    <2>4. /\ cli'[o].phase = "moved" /\ cli'[o].job = j
          /\ \A q \in Operators \ {o} : cli'[q] = cli[q]
        BY <1>11, AdvanceCli DEF MoveFinal
    <2>5. QED
        BY <1>0, <2>1, <2>2, <2>3, <2>4, LateNotIdle DEF BytesLeaveUnderAuthority,
           PurgedIsGone, Authorization, UnlinkedIsGone, StagesFirst, LatePhase, DeletionStatus
<1>12. ASSUME NEW o \in Operators, BindTombstone(o)
       PROVE  BytesInv'
    <2> DEFINE j == cli[o].job
    <2>1. /\ j \in Jobs /\ cli[o].phase = "moved" /\ UNCHANGED <<jobs, bytes>>
          /\ reservations[j].status = "deletion_authorized"
        BY <1>12, CliJob DEF BindTombstone, At, PurgeAuthority
    <2>2. /\ reservations'[j].status = "tombstone_bound"
          /\ reservations'[j].staged = reservations[j].staged
          /\ \A l \in Jobs \ {j} : reservations'[l] = reservations[l]
        BY <1>12, <2>1, ReservationSet DEF BindTombstone
    <2>3. /\ cli'[o].phase = "bound" /\ cli'[o].job = j
          /\ \A q \in Operators \ {o} : cli'[q] = cli[q]
        BY <1>12, AdvanceCli DEF BindTombstone
    <2>4. QED
        BY <1>0, <2>1, <2>2, <2>3, LateNotIdle DEF BytesLeaveUnderAuthority, PurgedIsGone,
           Authorization, UnlinkedIsGone, StagesFirst, LatePhase, DeletionStatus
<1>13. ASSUME NEW o \in Operators, UnlinkTombstone(o)
       PROVE  BytesInv'
    <2> DEFINE j == cli[o].job
    <2>1. /\ j \in Jobs /\ cli[o].phase = "unlinking" /\ bytes[j] # "final"
          /\ UNCHANGED <<jobs, reservations>>
        BY <1>13, CliJob DEF UnlinkTombstone, At
    <2>2. bytes'[j] = "gone" /\ \A l \in Jobs \ {j} : bytes'[l] = bytes[l]
        BY <1>13, <2>1 DEF UnlinkTombstone, JobTypeOK
    <2>3. /\ cli'[o].phase = "unlinked" /\ cli'[o].job = j
          /\ \A q \in Operators \ {o} : cli'[q] = cli[q]
        BY <1>13, AdvanceCli DEF UnlinkTombstone
    <2>4. QED
        BY <1>0, <2>1, <2>2, <2>3, LateNotIdle DEF BytesLeaveUnderAuthority, PurgedIsGone,
           Authorization, UnlinkedIsGone, StagesFirst, LatePhase
<1>14. ASSUME NEW o \in Operators, PersistPurge(o, active)
       PROVE  BytesInv'
    <2> DEFINE j == cli[o].job
    <2>1. j \in Jobs /\ bytes[j] = "gone" /\ UNCHANGED bytes
        BY <1>14, CliJob DEF PersistPurge, At, UnlinkedIsGone
    <2>2. /\ jobs'[j].review = "purged"
          /\ \A l \in Jobs \ {j} : jobs'[l].review = jobs[l].review
        BY <1>14, <2>1, ReviewSet DEF PersistPurge
    <2>3. /\ reservations'[j].status = "terminalized"
          /\ \A l \in Jobs \ {j} : reservations'[l] = reservations[l]
        BY <1>14, <2>1, ReservationSet DEF PersistPurge
    <2>4. cli'[o].phase = "idle" /\ \A q \in Operators \ {o} : cli'[q] = cli[q]
        BY <1>14, LeaveCli DEF PersistPurge
    <2>5. QED
        BY <1>0, <2>1, <2>2, <2>3, <2>4, LateNotIdle DEF BytesLeaveUnderAuthority,
           PurgedIsGone, Authorization, UnlinkedIsGone, StagesFirst, LatePhase, DeletionStatus
<1>15. ASSUME NEW o \in Operators, PurgeStops(o)
       PROVE  BytesInv'
    <2>1. /\ cli'[o].phase = "idle" /\ \A q \in Operators \ {o} : cli'[q] = cli[q]
          /\ UNCHANGED <<jobs, reservations, bytes>>
        BY <1>15, LeaveCli DEF PurgeStops
    <2>2. QED
        BY <1>0, <2>1 DEF BytesLeaveUnderAuthority, PurgedIsGone, Authorization,
           UnlinkedIsGone, StagesFirst, LatePhase
<1>16. QED
    BY <1>1, <1>3, <1>4, <1>5, <1>6, <1>7, <1>8, <1>9, <1>10, <1>11, <1>12, <1>13, <1>14,
       <1>15 DEF JobNext

LEMMA NextBytes == BytesInv /\ [Next]_vars => BytesInv'
<1>1. ASSUME BytesInv, [Next]_vars
      PROVE  JobNext(ActiveJobs) \/ UNCHANGED jobVars
    BY ZenonT(40), <1>1 DEF Next, vars, jobVars, Api, EnqueueTrainingExecution, CancelTrainingExecution,
       RetryTrainingExecution, SelectCandidate, ClaimSkips, Claim, ClaimRefuses, ClaimCancels,
       ClaimRuns, WorkerCrash, WorkerRestart, Process, RuntimeMissing, CheckClaim,
       CheckpointRaises, CopyInput, CopyFails, PersistInput, RuntimeReturns, CheckResult,
       Finalize, RenewExecutionLease, Tick
<1>2. QED
    BY <1>1, JobBytes, StutterBytes

(***************************************************************************)
(* The theorems.                                                           *)
(***************************************************************************)

\* However often a purge stops and is taken up again, and however many work
\* on one job, its bytes are away only under an authorization or once purged.
THEOREM BytesLeaveUnderAuthorityHolds == Spec => []BytesLeaveUnderAuthority
<1>1. BytesInv => BytesLeaveUnderAuthority
    BY DEF BytesInv
<1>2. QED
    BY <1>1, InitBytes, NextBytes, PTL DEF Spec

\* No job is marked purged while a byte of its bundle is left.
THEOREM PurgedIsGoneHolds == Spec => []PurgedIsGone
<1>1. BytesInv => PurgedIsGone
    BY DEF BytesInv
<1>2. QED
    BY <1>1, InitBytes, NextBytes, PTL DEF Spec

\* Both, as the runs check them: what leaves the disk leaves under a purge, and
\* what a purge reports as purged has left it.
THEOREM PurgePromiseHolds == Spec => []PurgePromise
<1>1. BytesInv => PurgePromise
    BY DEF BytesInv, PurgePromise
<1>2. QED
    BY <1>1, InitBytes, NextBytes, PTL DEF Spec

\* The fence of the rows reaches the bytes: no purge runs under a worker that
\* owns its claim.
THEOREM OwnedBytesHolds == Spec => []OwnedBytes
<1>1. ASSUME BytesInv, FenceInv
      PROVE  OwnedBytes
    <2>1. SUFFICES ASSUME NEW w \in Workers, Owns(w)
                   PROVE  bytes[execs[wk[w].exec].job] = "final"
        BY DEF OwnedBytes
    <2> DEFINE e == wk[w].exec
    <2>2. e \in Execs /\ LiveRow(execs[e])
        BY <1>1, <2>1, PickedRow DEF Owns, WorkingPhase, FenceInv
    <2>3. Active(e)
        BY <2>1 DEF Owns, ValidClaim, Active, ActiveStatus, OwnedStatus
    <2>4. execs[e].job \in Jobs /\ Phase11Authority(execs[e].job)
        BY <1>1, <2>2, <2>3 DEF FenceInv, ExecutionFence, LiveRow
    <2>5. QED
        BY <1>1, <2>4 DEF Phase11Authority, PurgeActive, ActivePurgeStatus, BytesInv,
                          BytesLeaveUnderAuthority
<1>2. QED
    BY <1>1, InitBytes, NextBytes, InitFence, NextFence, PTL DEF Spec
=============================================================================
