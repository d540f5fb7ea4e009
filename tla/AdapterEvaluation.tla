-------------------------- MODULE AdapterEvaluation --------------------------
(***************************************************************************)
(* Phase 12.2: one paired evaluation of an adapter on a suite.  A worker   *)
(* claims it under a lease, evaluates the cases, lets a child stage the    *)
(* result and another publish it, and commits.  The final path is one for  *)
(* all attempts of the evaluation, and whoever gives up removes what is of *)
(* its attempt there without asking whether the claim is still its own.    *)
(*                                                                         *)
(* A worker is known by its attempt.  It and its child are one sequence of *)
(* steps: the parent ends the child before it does anything else, and a    *)
(* child whose parent died takes the steps left to it.  A process that     *)
(* dies takes no further step.                                             *)
(*                                                                         *)
(* Abstractions: the cases and what they score; a directory is marked      *)
(* (begun, with its marker), open (whole, with its marker), closed (whole) *)
(* or broken (somebody began to empty it); the adapter at its version, its *)
(* dependency and the suite are there or, for good, not, and AdapterGover- *)
(* nance has them in detail.  A requester who lost the membership is a     *)
(* failure of the step that looks, which may be any.                       *)
(***************************************************************************)
EXTENDS Naturals, FiniteSets

CONSTANT MaxEvaluations  \* bound: attempts of the evaluation

ASSUME EvaluationAssumption == MaxEvaluations \in Nat \ {0}

VARIABLES
    eligible,    \* the adapter is validated, without a purge; its suite active
    evaluation,  \* AdapterEvaluationRun
    evalAttempt, \* the status of each AdapterEvaluationAttempt
    result,      \* the directory of each attempt
    evaluator,   \* the step of the worker of each attempt
    removal,     \* the removal it is at
    lost         \* history: how the result of each attempt may have been lost

evaluationVars == <<eligible, evaluation, evalAttempt, result, evaluator, removal, lost>>
evalRowVars == <<eligible, evaluation, evalAttempt>>

Evaluations == 1 .. MaxEvaluations
ResultSides == {"stage", "final"}

NoResult == [at |-> "none", content |-> "none"]
ResultStates == [at : {"none"} \cup ResultSides,
                 content : {"none", "marked", "open", "closed", "broken"}]

\* Every step up to "finalize" may fail; then the worker cleans up.
WorkingSteps == {"claimed", "sweep", "evaluate", "mkdir", "write", "check", "unmark",
                 "rename", "verify", "finalize"}
GivingUp == {"failing", "cancelling", "stopping"}

\* of: whose directory is meant; opened: whose is read or held open.
NoRemoval == [step |-> "none", of |-> 1, side |-> "stage", opened |-> 1]
RemovalStates == [step : {"none", "find", "open", "empty", "rmdir"}, of : Evaluations,
                  side : ResultSides, opened : Evaluations]

EvaluationInit ==
    /\ eligible = TRUE
    /\ evaluation = [status |-> "none", attempt |-> 0, live |-> FALSE, cancel |-> FALSE]
    /\ evalAttempt = [n \in Evaluations |-> "none"]
    /\ result = [n \in Evaluations |-> NoResult]
    /\ evaluator = [n \in Evaluations |-> "idle"]
    /\ removal = [n \in Evaluations |-> NoRemoval]
    /\ lost = [n \in Evaluations |-> {}]

ResultIs(n, at, content) == result[n] = [at |-> at, content |-> content]
PutResult(n, at, content) ==
    result' = [result EXCEPT ![n] = [at |-> at, content |-> content]]

\* Who is at the final path: one attempt at most.
Published == {n \in Evaluations : result[n].at = "final"}

\* The parent goes on when its child has ended.
EvalStep(n, from, to) == evaluator[n] = from /\ evaluator' = [evaluator EXCEPT ![n] = to]

(***************************************************************************)
(* The API, the clock, and whoever archives the suite or purges the        *)
(* adapter.                                                                *)
(***************************************************************************)

EvaluationRequest(new) ==
    /\ evaluation' = new
    /\ UNCHANGED <<eligible, evalAttempt, result, evaluator, removal, lost>>

\* enqueue_adapter_evaluation with _check_eligibility
EnqueueEvaluation ==
    /\ eligible
    /\ evaluation.status = "none"
    /\ EvaluationRequest([evaluation EXCEPT !.status = "queued", !.attempt = 1])

\* cancel_adapter_evaluation
CancelEvaluation ==
    /\ evaluation.status \in {"queued", "running"}
    /\ EvaluationRequest([evaluation EXCEPT !.cancel = TRUE,
          !.status = IF @ = "queued" THEN "cancelled" ELSE @])

EvaluationLapses ==
    /\ evaluation.status = "running" /\ evaluation.live
    /\ EvaluationRequest([evaluation EXCEPT !.live = FALSE])

LoseEligibility ==
    /\ eligible
    /\ eligible' = FALSE
    /\ UNCHANGED <<evaluation, evalAttempt, result, evaluator, removal, lost>>

(***************************************************************************)
(* claim_next                                                              *)
(***************************************************************************)

EvaluationClaimable ==
    evaluation.status = "queued" \/ (evaluation.status = "running" /\ ~evaluation.live)

\* An evaluation ends, and the attempt that is at it.
EndEvaluation(status) ==
    /\ evaluation' = [evaluation EXCEPT !.status = status, !.live = FALSE]
    /\ evalAttempt' = [n \in Evaluations |->
          IF n = evaluation.attempt /\ evalAttempt[n] = "running"
          THEN status ELSE evalAttempt[n]]

\* Nobody removes what the attempt left on disk.
CancelLapsed ==
    /\ EvaluationClaimable
    /\ evaluation.status = "running" /\ evaluation.cancel
    /\ EndEvaluation("cancelled")
    /\ UNCHANGED <<eligible, result, evaluator, removal, lost>>

\* The same of this.
FailIneligible ==
    /\ EvaluationClaimable
    /\ evaluation.status = "running" => ~evaluation.cancel
    /\ ~eligible
    /\ EndEvaluation("failed")
    /\ UNCHANGED <<eligible, result, evaluator, removal, lost>>

ClaimEvaluation ==
    LET last == evaluation.attempt
        stale == evaluation.status = "running"
        next == IF stale THEN last + 1 ELSE last
    IN  /\ EvaluationClaimable
        /\ stale => ~evaluation.cancel
        /\ eligible
        /\ next \in Evaluations
        /\ evaluation' = [evaluation EXCEPT !.status = "running", !.attempt = next,
                                            !.live = TRUE]
        /\ evalAttempt' = [n \in Evaluations |->
              IF n = next THEN "running"
              ELSE IF stale /\ n = last THEN "reclaimed" ELSE evalAttempt[n]]
        /\ evaluator' = [evaluator EXCEPT ![next] = "claimed"]
        /\ UNCHANGED <<eligible, result, removal, lost>>

(***************************************************************************)
(* process_adapter_evaluation_run                                          *)
(***************************************************************************)

\* _owned with _live
OwnsEvaluation(n) ==
    evaluation.status = "running" /\ evaluation.attempt = n /\ evaluation.live

\* require_live_claim, and what renew_lease asks for
HoldsEvaluation(n) == OwnsEvaluation(n) /\ ~evaluation.cancel

\* The last attempt is the stale one; an older one that was never cleaned is
\* not looked at.
BeginEvaluation(n) ==
    /\ EvalStep(n, "claimed", IF n = 1 THEN "evaluate" ELSE "sweep")
    /\ HoldsEvaluation(n)
    /\ removal' = IF n = 1 THEN removal
                  ELSE [removal EXCEPT ![n] = [NoRemoval EXCEPT !.step = "find", !.of = n - 1]]
    /\ UNCHANGED <<evalRowVars, result, lost>>

\* The suite is loaded and each case evaluated, every one behind a renewal.
EvaluateCases(n) ==
    /\ EvalStep(n, "evaluate", "mkdir")
    /\ HoldsEvaluation(n)
    /\ UNCHANGED <<evalRowVars, result, removal, lost>>

\* A child writes to the disk only, and looks at no claim between its steps.
ChildStep(n, from, to) ==
    /\ EvalStep(n, from, to)
    /\ UNCHANGED <<evalRowVars, removal, lost>>

\* The child that stages.
CreateResultStage(n) ==
    /\ ChildStep(n, "mkdir", "write")
    /\ ResultIs(n, "none", "none") /\ PutResult(n, "stage", "marked")

WriteResult(n) ==
    /\ ChildStep(n, "write", "check")
    /\ ResultIs(n, "stage", "marked") /\ PutResult(n, "stage", "open")

CheckBeforePublish(n) ==
    /\ EvalStep(n, "check", "unmark")
    /\ HoldsEvaluation(n)
    /\ UNCHANGED <<evalRowVars, result, removal, lost>>

\* The child that publishes: the marker goes first; the rename refuses a
\* final that is there, and moves a stage that somebody empties.
RemoveResultMarker(n) ==
    /\ ChildStep(n, "unmark", "rename")
    /\ ResultIs(n, "stage", "open") /\ PutResult(n, "stage", "closed")

RenameResult(n) ==
    /\ ChildStep(n, "rename", "verify")
    /\ result[n].at = "stage" /\ Published = {}
    /\ PutResult(n, "final", result[n].content)

\* verify_published
Verified(n) == ResultIs(n, "final", "closed")

\* The claim follows, then the authority of the suite.
VerifyResult(n) ==
    /\ EvalStep(n, "verify", "finalize")
    /\ Verified(n)
    /\ HoldsEvaluation(n)
    /\ UNCHANGED <<evalRowVars, result, removal, lost>>

\* The removal of one's own attempt, its stage first.
OwnRemoval(n) == [NoRemoval EXCEPT !.step = "find", !.of = n, !.opened = n]

\* Mutant: the request to stop is overlooked.
AuthorityOverlooksCancel(n) == OwnsEvaluation(n) /\ eligible

\* What the final transaction looks at once more, under the locks of all rows.
AuthorityHolds(n) == HoldsEvaluation(n) /\ eligible

\* finalize_success.  The answer to the commit may be lost: for the worker it
\* has failed, and it gives up.
FinalizeSuccess(n) ==
    /\ evaluator[n] = "finalize"
    /\ AuthorityHolds(n) /\ Verified(n)
    /\ EndEvaluation("succeeded")
    /\ \/ /\ evaluator' = [evaluator EXCEPT ![n] = "done"]
          /\ UNCHANGED <<removal, lost>>
       \/ /\ evaluator' = [evaluator EXCEPT ![n] = "failing"]
          /\ removal' = [removal EXCEPT ![n] = OwnRemoval(n)]
          /\ lost' = [lost EXCEPT ![n] = @ \cup {"answer"}]
    /\ UNCHANGED <<eligible, result>>

\* Any error, or a signal to stop: _cleanup_attempt_stage comes first.
GiveUp(n) ==
    /\ evaluator[n] \in WorkingSteps
    /\ \E way \in GivingUp :
          /\ way = "cancelling" => OwnsEvaluation(n) /\ evaluation.cancel
          /\ evaluator' = [evaluator EXCEPT ![n] = way]
    /\ removal' = [removal EXCEPT ![n] = OwnRemoval(n)]
    /\ UNCHANGED <<evalRowVars, result, lost>>

\* fail_owned, which changes nothing when the claim is lost.
RecordGivenUp(n) ==
    /\ evaluator[n] \in GivingUp /\ removal[n].step = "none"
    /\ evaluator' = [evaluator EXCEPT ![n] = "done"]
    /\ IF OwnsEvaluation(n) /\ evaluator[n] # "stopping"
       THEN EndEvaluation(IF evaluator[n] = "cancelling" THEN "cancelled" ELSE "failed")
       ELSE UNCHANGED <<evaluation, evalAttempt>>
    /\ UNCHANGED <<eligible, result, removal, lost>>

(***************************************************************************)
(* cleanup_stage and cleanup_published                                     *)
(***************************************************************************)

Opens(n, k, step) ==
    /\ removal' = [removal EXCEPT ![n].step = step, ![n].opened = k]
    /\ UNCHANGED evaluator

\* One side is done, without an error or with one: of its own attempt a
\* worker ignores it, of the stale one it gives up.
SideDone(n, ok) ==
    LET own == evaluator[n] \in GivingUp
        stage == removal[n].side = "stage"
    IN  /\ removal' = [removal EXCEPT ![n] =
              IF ~own /\ ~ok THEN OwnRemoval(n)
              ELSE IF stage THEN [@ EXCEPT !.step = "find", !.side = "final"]
              ELSE NoRemoval]
        /\ evaluator' = [evaluator EXCEPT ![n] =
              IF own \/ (ok /\ stage) THEN @ ELSE IF ok THEN "evaluate" ELSE "failing"]

\* A stage is named by its attempt.
FindStage(n) ==
    /\ removal[n].step = "find" /\ removal[n].side = "stage"
    /\ LET k == removal[n].of
       IN  IF result[k].at = "stage"
           THEN Opens(n, k, "empty")
           ELSE SideDone(n, TRUE)
    /\ UNCHANGED <<evalRowVars, result, lost>>

\* Mutant: whatever is at the final path is taken for the attempt's.
ReadFinalUnread(n) ==
    /\ removal[n].step = "find" /\ removal[n].side = "final"
    /\ \/ Published = {} /\ SideDone(n, TRUE)
       \/ \E k \in Published : Opens(n, k, "open")
    /\ UNCHANGED <<evalRowVars, result, lost>>

\* A final says in its manifest whose it is, which may be gone when it is
\* broken.
ReadFinal(n) ==
    /\ removal[n].step = "find" /\ removal[n].side = "final"
    /\ LET k == removal[n].of
       IN  \/ Published = {} /\ SideDone(n, TRUE)
           \/ Published = {k} /\ Opens(n, k, "open")
           \/ Published # {} /\ ~ResultIs(k, "final", "closed") /\ SideDone(n, FALSE)
    /\ UNCHANGED <<evalRowVars, result, lost>>

\* _safe_remove_tree opens what is at the path by now.
OpenFinal(n) ==
    /\ removal[n].step = "open"
    /\ \/ Published = {} /\ SideDone(n, TRUE) /\ UNCHANGED lost
       \/ \E k \in Published :
             /\ Opens(n, k, "empty")
             /\ lost' = IF k # removal[n].of /\ removal[n].opened = removal[n].of
                        THEN [lost EXCEPT ![k] = @ \cup {"taken"}] ELSE lost
    /\ UNCHANGED <<evalRowVars, result>>

\* Through the descriptor, wherever the directory is; another that empties it
\* as well may be in the way.
EmptyResult(n) ==
    /\ removal[n].step = "empty"
    /\ LET k == removal[n].opened
       IN  \/ /\ Opens(n, k, "rmdir")
              /\ result' = IF result[k].at = "none" THEN result
                           ELSE [result EXCEPT ![k].content = "broken"]
           \/ /\ result[k].content = "broken"
              /\ SideDone(n, FALSE) /\ UNCHANGED result
    /\ UNCHANGED <<evalRowVars, lost>>

\* By name, if it still is the same directory, and empty.
RemoveResult(n) ==
    /\ removal[n].step = "rmdir"
    /\ LET k == removal[n].opened
           there == result[k].at = removal[n].side
       IN  \/ there /\ PutResult(k, "none", "none") /\ SideDone(n, TRUE)
           \/ /\ ~there \/ evaluator[k] = "write"
              /\ SideDone(n, FALSE) /\ UNCHANGED result
    /\ UNCHANGED <<evalRowVars, lost>>

RemoveLeftover(n) ==
    \/ FindStage(n) \/ ReadFinal(n) \/ OpenFinal(n) \/ EmptyResult(n) \/ RemoveResult(n)

EvaluationNext ==
    \/ EnqueueEvaluation \/ CancelEvaluation \/ EvaluationLapses \/ LoseEligibility
    \/ CancelLapsed \/ FailIneligible \/ ClaimEvaluation
    \/ \E n \in Evaluations :
          \/ BeginEvaluation(n) \/ EvaluateCases(n)
          \/ CreateResultStage(n) \/ WriteResult(n) \/ CheckBeforePublish(n)
          \/ RemoveResultMarker(n) \/ RenameResult(n) \/ VerifyResult(n)
          \/ FinalizeSuccess(n) \/ GiveUp(n) \/ RecordGivenUp(n) \/ RemoveLeftover(n)

(***************************************************************************)
(* Properties.                                                             *)
(***************************************************************************)

\* The same of the evaluation, its attempts, their directories and workers.
EvaluationTypeOK ==
    /\ eligible \in BOOLEAN
    /\ evaluation \in [status : {"none", "queued", "running", "succeeded", "failed",
                                 "cancelled"},
                       attempt : 0 .. MaxEvaluations, live : BOOLEAN, cancel : BOOLEAN]
    /\ evaluation.status # "none" => evaluation.attempt \in Evaluations
    /\ evalAttempt \in [Evaluations -> {"none", "running", "reclaimed", "succeeded",
                                        "failed", "cancelled"}]
    /\ result \in [Evaluations -> ResultStates]
    /\ evaluator \in [Evaluations -> WorkingSteps \cup GivingUp \cup {"idle", "done"}]
    /\ removal \in [Evaluations -> RemovalStates]
    /\ lost \in [Evaluations -> SUBSET {"answer", "taken"}]

\* An evaluation that succeeded was not asked to stop, is the success of one
\* attempt, its last, and has the result of that attempt at its final path;
\* unless exactly this result was lost in one of two ways, of which there is
\* no third: the answer to its commit was lost, and its own worker cleaned it
\* up; a replaced worker that had read the manifest of its own final opened
\* this one, which had come there since (RemovalsKeepScope, which the code
\* breaks).
EvaluationsStand ==
    evaluation.status = "succeeded" =>
        /\ ~evaluation.cancel
        /\ {n \in Evaluations : evalAttempt[n] = "succeeded"} = {evaluation.attempt}
        /\ lost[evaluation.attempt] = {} => ResultIs(evaluation.attempt, "final", "closed")

\* What cleanup_published says of itself (only a failed final whose manifest
\* names the exact attempt is removed): the result of a success whose commit
\* was answered outlives the clean-up of every other attempt.
RemovalsKeepScope ==
    evaluation.status = "succeeded" /\ "answer" \notin lost[evaluation.attempt] =>
        ResultIs(evaluation.attempt, "final", "closed")
=============================================================================
