-------------------------- MODULE Artifacts_proofs --------------------------
(***************************************************************************)
(* That the result of an evaluation that succeeded stands, and a dataset   *)
(* that may be used, for any number of attempts, importers, replaced       *)
(* workers and clean-ups.  The second half is about the datasets.          *)
(***************************************************************************)
EXTENDS AdapterReconcile_proofs

(***************************************************************************)
(* The invariant of an evaluation.                                         *)
(***************************************************************************)

\* A worker that gives up removes its own attempt, one that replaced another
\* an earlier attempt; what is opened belongs to it, unless something else
\* came to the final path since its manifest was read.
RemovalFits(w, n, r, lo) ==
    /\ r.step # "none" => (w \in GivingUp /\ r.of = n) \/ (w = "sweep" /\ r.of < n)
    /\ r.step = "open" => r.opened = r.of
    /\ r.step \in {"empty", "rmdir"} /\ "taken" \notin lo[r.opened] => r.opened = r.of

RemovalsFit == \A n \in Evaluations : RemovalFits(evaluator[n], n, removal[n], lost)

\* Attempts that were not made yet have no worker, the one that runs is
\* recorded, and success is one of the last attempt.
AttemptsFit ==
    /\ \A n \in Evaluations :
          /\ n > evaluation.attempt => evaluator[n] = "idle"
          /\ evaluation.status \in {"none", "queued"} => evaluator[n] = "idle"
          /\ evalAttempt[n] = "succeeded" =>
                evaluation.status = "succeeded" /\ n = evaluation.attempt
    /\ evaluation.status = "running" => evalAttempt[evaluation.attempt] = "running"

\* The worker that succeeded is done, and its result is there.
SuccessFits ==
    evaluation.status = "succeeded" =>
        /\ ~evaluation.cancel
        /\ evalAttempt[evaluation.attempt] = "succeeded"
        /\ lost[evaluation.attempt] = {} =>
              evaluator[evaluation.attempt] = "done" /\ Verified(evaluation.attempt)

EvaluationInv == EvaluationTypeOK /\ RemovalsFit /\ AttemptsFit /\ SuccessFits

(***************************************************************************)
(* What the step of a worker becomes.                                      *)
(***************************************************************************)

EvaluatorSteps == WorkingSteps \cup GivingUp \cup {"idle", "done"}
Losses == {"answer", "taken"}
EvaluationRow == [status : {"none", "queued", "running", "succeeded", "failed", "cancelled"},
                  attempt : 0 .. MaxEvaluations, live : BOOLEAN, cancel : BOOLEAN]
EvaluationAttemptStatus == {"none", "running", "reclaimed", "succeeded", "failed", "cancelled"}

LEMMA EvaluationTypes ==
    EvaluationTypeOK <=>
        /\ eligible \in BOOLEAN
        /\ evaluation \in EvaluationRow
        /\ evaluation.status # "none" => evaluation.attempt \in Evaluations
        /\ evalAttempt \in [Evaluations -> EvaluationAttemptStatus]
        /\ result \in [Evaluations -> ResultStates]
        /\ evaluator \in [Evaluations -> EvaluatorSteps]
        /\ removal \in [Evaluations -> RemovalStates]
        /\ lost \in [Evaluations -> SUBSET Losses]
BY DEF EvaluationTypeOK, EvaluationRow, EvaluationAttemptStatus, EvaluatorSteps, Losses

LEMMA EvaluationTypesNext ==
    EvaluationTypeOK' <=>
        /\ eligible' \in BOOLEAN
        /\ evaluation' \in EvaluationRow
        /\ evaluation'.status # "none" => evaluation'.attempt \in Evaluations
        /\ evalAttempt' \in [Evaluations -> EvaluationAttemptStatus]
        /\ result' \in [Evaluations -> ResultStates]
        /\ evaluator' \in [Evaluations -> EvaluatorSteps]
        /\ removal' \in [Evaluations -> RemovalStates]
        /\ lost' \in [Evaluations -> SUBSET Losses]
BY DEF EvaluationTypeOK, EvaluationRow, EvaluationAttemptStatus, EvaluatorSteps, Losses

LEMMA FirstEvaluation == 1 \in Evaluations /\ \A n \in Evaluations : n \in Nat /\ n >= 1
BY EvaluationAssumption DEF Evaluations

\* What was lost stays lost.
LossesStay ==
    /\ lost' \in [Evaluations -> SUBSET Losses]
    /\ \A k \in Evaluations : lost[k] \subseteq lost'[k]

LEMMA NothingLost ==
    ASSUME EvaluationInv, UNCHANGED lost
    PROVE  LossesStay
BY EvaluationTypes DEF EvaluationInv, LossesStay

\* Worker n, at work, is at step w afterwards, with the removal r.
Moves(n, w, r) ==
    /\ n \in Evaluations /\ evaluator[n] \notin {"idle", "done"}
    /\ w \in EvaluatorSteps \ {"idle"} /\ r \in RemovalStates
    /\ evaluator' = [evaluator EXCEPT ![n] = w]
    /\ removal' = [removal EXCEPT ![n] = r]
    /\ LossesStay
    /\ RemovalFits(w, n, r, lost')

\* It has changed its own result only, or the one its removal opened.
Touches(n) ==
    /\ result' \in [Evaluations -> ResultStates]
    /\ \A k \in Evaluations :
          \/ result'[k] = result[k]
          \/ k = n
          \/ removal[n].step \in {"empty", "rmdir"} /\ k = removal[n].opened

LEMMA MovedRemovals ==
    ASSUME EvaluationInv, NEW n, NEW w, NEW r, Moves(n, w, r)
    PROVE  /\ RemovalsFit'
           /\ evaluator' \in [Evaluations -> EvaluatorSteps]
           /\ removal' \in [Evaluations -> RemovalStates]
           /\ evaluator'[n] = w /\ w # "idle" /\ evaluator[n] # "idle"
           /\ \A k \in Evaluations \ {n} : evaluator'[k] = evaluator[k]
<1>1. /\ evaluator \in [Evaluations -> EvaluatorSteps]
      /\ removal \in [Evaluations -> RemovalStates]
    BY EvaluationTypes DEF EvaluationInv
<1>2. /\ evaluator' \in [Evaluations -> EvaluatorSteps]
      /\ removal' \in [Evaluations -> RemovalStates]
      /\ evaluator'[n] = w /\ removal'[n] = r
      /\ \A k \in Evaluations \ {n} : evaluator'[k] = evaluator[k] /\ removal'[k] = removal[k]
    BY <1>1 DEF Moves
<1>3. ASSUME NEW k \in Evaluations PROVE RemovalFits(evaluator'[k], k, removal'[k], lost')
    <2>1. CASE k = n
        BY <1>2, <2>1 DEF Moves
    <2>2. CASE k # n
        <3>1. RemovalFits(evaluator[k], k, removal[k], lost)
            BY DEF EvaluationInv, RemovalsFit
        <3>2. removal[k].opened \in Evaluations
            BY EvaluationTypes DEF EvaluationInv, RemovalStates
        <3>3. "taken" \notin lost'[removal[k].opened] => "taken" \notin lost[removal[k].opened]
            BY <3>2 DEF Moves, LossesStay
        <3>4. QED
            BY <1>2, <2>2, <3>1, <3>3 DEF RemovalFits
    <2>3. QED
        BY <2>1, <2>2
<1>4. QED
    BY <1>2, <1>3 DEF RemovalsFit, Moves

LEMMA WorkerKeeps ==
    ASSUME EvaluationInv, NEW n, NEW w, NEW r, Moves(n, w, r), Touches(n), UNCHANGED evalRowVars
    PROVE  EvaluationInv'
<1>1. /\ RemovalsFit'
      /\ evaluator' \in [Evaluations -> EvaluatorSteps]
      /\ removal' \in [Evaluations -> RemovalStates]
      /\ evaluator'[n] = w /\ w # "idle" /\ evaluator[n] # "idle"
      /\ \A k \in Evaluations \ {n} : evaluator'[k] = evaluator[k]
    BY MovedRemovals
<1>2. EvaluationTypeOK'
    BY <1>1, EvaluationTypes, EvaluationTypesNext DEF EvaluationInv, evalRowVars, Moves, Touches, LossesStay
<1>3. AttemptsFit'
    <2>1. n \in Evaluations
        BY DEF Moves
    <2>2. QED
        BY <1>1, <2>1 DEF EvaluationInv, AttemptsFit, evalRowVars
<1>4. SuccessFits'
    <2> DEFINE a == evaluation.attempt
    <2>1. SUFFICES ASSUME evaluation.status = "succeeded", lost'[a] = {}
                   PROVE  lost[a] = {} /\ evaluator'[a] = "done" /\ result'[a] = result[a]
        BY DEF EvaluationInv, SuccessFits, evalRowVars, Moves, Verified, ResultIs
    <2>2. a \in Evaluations /\ lost[a] = {} /\ evaluator[a] = "done"
        <3>1. a \in Evaluations
            BY <2>1, EvaluationTypes DEF EvaluationInv
        <3>2. lost[a] = {}
            BY <2>1, <3>1 DEF Moves, LossesStay
        <3>3. QED
            BY <2>1, <3>1, <3>2 DEF EvaluationInv, SuccessFits
    <2>3. n \in Evaluations /\ n # a
        BY <2>2 DEF Moves
    <2>4. n \in Nat /\ a \in Nat /\ n <= a
        BY <2>2, <2>3, <1>1 DEF EvaluationInv, AttemptsFit, Evaluations
    <2>5. ASSUME removal[n].step \in {"empty", "rmdir"} PROVE removal[n].opened # a
        <3>1. RemovalFits(evaluator[n], n, removal[n], lost)
            BY <2>3 DEF EvaluationInv, RemovalsFit
        <3>2. removal[n].opened = a => removal[n].opened = removal[n].of
            BY <2>2, <2>5, <3>1 DEF RemovalFits
        <3>3. removal[n].of = n \/ removal[n].of < n
            BY <2>5, <3>1 DEF RemovalFits
        <3>4. removal[n].of \in Nat
            BY <2>3, EvaluationTypes DEF EvaluationInv, RemovalStates, Evaluations
        <3>5. QED
            BY <2>3, <2>4, <3>2, <3>3, <3>4
    <2>6. QED
        BY <1>1, <2>2, <2>3, <2>5 DEF Touches
<1>5. QED
    BY <1>1, <1>2, <1>3, <1>4 DEF EvaluationInv

(***************************************************************************)
(* The steps of a worker before its final transaction, and of its child.   *)
(***************************************************************************)

\* The removal stays, and where none is at work nothing is asked of a step.
LEMMA NoRemovalMoves ==
    ASSUME EvaluationInv, NEW n \in Evaluations,
           evaluator[n] \notin GivingUp \cup {"idle", "done", "sweep"},
           NEW w \in EvaluatorSteps \ {"idle"}, evaluator' = [evaluator EXCEPT ![n] = w],
           UNCHANGED <<removal, lost>>
    PROVE  Moves(n, w, removal[n])
<1>1. removal[n] \in RemovalStates /\ removal \in [Evaluations -> RemovalStates] /\ LossesStay
    BY NothingLost, EvaluationTypes DEF EvaluationInv
<1>2. RemovalFits(evaluator[n], n, removal[n], lost)
    BY DEF EvaluationInv, RemovalsFit
<1>3. removal[n].step = "none"
    BY <1>2 DEF RemovalFits
<1>4. RemovalFits(w, n, removal[n], lost')
    BY <1>3 DEF RemovalFits
<1>5. QED
    BY <1>1, <1>4 DEF Moves
LEMMA PutTouches ==
    ASSUME EvaluationInv, NEW n \in Evaluations, NEW at \in {"none"} \cup ResultSides,
           NEW content \in {"none", "marked", "open", "closed", "broken"},
           PutResult(n, at, content)
    PROVE  Touches(n)
<1>1. result \in [Evaluations -> ResultStates] /\ [at |-> at, content |-> content] \in ResultStates
    BY EvaluationTypes DEF EvaluationInv, ResultStates
<1>2. QED
    BY <1>1 DEF PutResult, Touches

LEMMA SameTouches ==
    ASSUME EvaluationInv, NEW n \in Evaluations, UNCHANGED result
    PROVE  Touches(n)
BY EvaluationTypes DEF EvaluationInv, Touches

LEMMA RemovalsTyped ==
    /\ NoRemoval \in RemovalStates
    /\ \A n \in Evaluations : /\ OwnRemoval(n) \in RemovalStates
                              /\ OwnRemoval(n).step = "find" /\ OwnRemoval(n).of = n
BY FirstEvaluation DEF NoRemoval, OwnRemoval, RemovalStates, ResultSides

\* A worker that gives up begins to remove its own attempt.
LEMMA GivingUpMoves ==
    ASSUME EvaluationInv, NEW n \in Evaluations, evaluator[n] \notin {"idle", "done"},
           NEW w \in GivingUp, evaluator' = [evaluator EXCEPT ![n] = w],
           removal' = [removal EXCEPT ![n] = OwnRemoval(n)],
           LossesStay
    PROVE  Moves(n, w, OwnRemoval(n))
<1>1. w \in EvaluatorSteps \ {"idle"}
    BY DEF GivingUp, EvaluatorSteps
<1>2. RemovalFits(w, n, OwnRemoval(n), lost')
    BY RemovalsTyped DEF RemovalFits
<1>3. QED
    BY <1>1, <1>2, RemovalsTyped DEF Moves

LEMMA BeginKeeps ==
    ASSUME EvaluationInv, NEW n \in Evaluations, BeginEvaluation(n)
    PROVE  EvaluationInv'
<1>1. evaluator[n] = "claimed" /\ UNCHANGED <<evalRowVars, result, lost>>
    BY DEF BeginEvaluation, EvalStep
<1>2. LossesStay
    BY <1>1, NothingLost
<1>3. CASE n = 1
    <2>1. Moves(n, "evaluate", removal[n])
        BY <1>1, <1>3, NoRemovalMoves DEF BeginEvaluation, EvalStep, GivingUp, EvaluatorSteps, WorkingSteps
    <2>2. QED
        BY <1>1, <2>1, WorkerKeeps, SameTouches
<1>4. CASE n # 1
    <2> DEFINE r == [NoRemoval EXCEPT !.step = "find", !.of = n - 1]
    <2>1. n - 1 \in Evaluations /\ n - 1 < n
        BY <1>4, EvaluationAssumption DEF Evaluations
    <2>2. r \in RemovalStates /\ r.step = "find" /\ r.of = n - 1
        BY <2>1, FirstEvaluation DEF NoRemoval, RemovalStates, ResultSides
    <2>3. removal' = [removal EXCEPT ![n] = r] /\ evaluator' = [evaluator EXCEPT ![n] = "sweep"]
        BY <1>4 DEF BeginEvaluation, EvalStep
    <2> HIDE DEF r
    <2>4. RemovalFits("sweep", n, r, lost')
        BY <2>1, <2>2 DEF RemovalFits
    <2>5. Moves(n, "sweep", r)
        BY <1>1, <1>2, <2>2, <2>3, <2>4 DEF Moves, EvaluatorSteps, WorkingSteps
    <2>6. QED
        BY <1>1, <2>5, WorkerKeeps, SameTouches
<1>5. QED
    BY <1>3, <1>4

\* The steps that look at the claim, and those of the two children.
LEMMA LookingKeeps ==
    ASSUME EvaluationInv, NEW n \in Evaluations,
           EvaluateCases(n) \/ CheckBeforePublish(n) \/ VerifyResult(n)
    PROVE  EvaluationInv'
<1> DEFINE Looks(from, to) ==
        EvalStep(n, from, to) /\ UNCHANGED <<evalRowVars, result, removal, lost>>
<1>1. \/ Looks("evaluate", "mkdir") \/ Looks("check", "unmark") \/ Looks("verify", "finalize")
    BY DEF EvaluateCases, CheckBeforePublish, VerifyResult
<1>2. ASSUME NEW from \in {"evaluate", "check", "verify"}, NEW to \in WorkingSteps, Looks(from, to)
      PROVE  EvaluationInv'
    <2>1. Moves(n, to, removal[n])
        BY <1>2, NoRemovalMoves DEF EvalStep, GivingUp, EvaluatorSteps, WorkingSteps
    <2>2. QED
        BY <1>2, <2>1, WorkerKeeps, SameTouches
<1>3. QED
    BY <1>1, <1>2 DEF WorkingSteps

LEMMA ChildKeeps ==
    ASSUME EvaluationInv, NEW n \in Evaluations,
           \/ CreateResultStage(n) \/ WriteResult(n) \/ RemoveResultMarker(n) \/ RenameResult(n)
    PROVE  EvaluationInv'
<1>1. \/ ChildStep(n, "mkdir", "write") \/ ChildStep(n, "write", "check")
      \/ ChildStep(n, "unmark", "rename") \/ ChildStep(n, "rename", "verify")
    BY DEF CreateResultStage, WriteResult, RemoveResultMarker, RenameResult
<1>2. ASSUME NEW from \in {"mkdir", "write", "unmark", "rename"}, NEW to \in WorkingSteps,
             ChildStep(n, from, to)
      PROVE  Moves(n, to, removal[n]) /\ UNCHANGED evalRowVars
    BY <1>2, NoRemovalMoves DEF ChildStep, EvalStep, GivingUp, EvaluatorSteps, WorkingSteps
<1>3. PICK to \in WorkingSteps : Moves(n, to, removal[n]) /\ UNCHANGED evalRowVars
    BY <1>1, <1>2 DEF WorkingSteps
<1>4. Touches(n)
    <2>1. result[n] \in ResultStates
        BY EvaluationTypes DEF EvaluationInv
    <2>2. result[n].content \in {"none", "marked", "open", "closed", "broken"}
        BY <2>1 DEF ResultStates
    <2>3. \E at \in {"none"} \cup ResultSides,
             content \in {"none", "marked", "open", "closed", "broken"} : PutResult(n, at, content)
        BY <2>2 DEF CreateResultStage, WriteResult, RemoveResultMarker, RenameResult, ResultSides
    <2>4. QED
        BY <2>3, PutTouches
<1>5. QED
    BY <1>3, <1>4, WorkerKeeps

LEMMA GiveUpKeeps ==
    ASSUME EvaluationInv, NEW n \in Evaluations, GiveUp(n)
    PROVE  EvaluationInv'
<1>1. PICK way \in GivingUp : evaluator' = [evaluator EXCEPT ![n] = way]
    BY DEF GiveUp
<1>2. evaluator[n] \notin {"idle", "done"}
    BY DEF GiveUp, WorkingSteps
<1>3. LossesStay /\ UNCHANGED <<evalRowVars, result>>
    BY NothingLost DEF GiveUp
<1>4. Moves(n, way, OwnRemoval(n))
    BY <1>1, <1>2, <1>3, GivingUpMoves DEF GiveUp
<1>5. QED
    BY <1>3, <1>4, WorkerKeeps, SameTouches

(***************************************************************************)
(* Removals.                                                               *)
(***************************************************************************)

\* Who is at a removal.
LEMMA RemovingWorker ==
    ASSUME EvaluationInv, NEW n \in Evaluations, removal[n].step # "none"
    PROVE  /\ evaluator[n] \in GivingUp \cup {"sweep"}
           /\ evaluator[n] \notin {"idle", "done"}
           /\ evaluator[n] \in EvaluatorSteps \ {"idle"}
           /\ evaluator[n] \in GivingUp => removal[n].of = n
           /\ evaluator[n] = "sweep" => removal[n].of < n
           /\ removal[n] \in RemovalStates
           /\ removal[n].of \in Evaluations /\ removal[n].opened \in Evaluations
           /\ removal[n].side \in ResultSides
           /\ removal[n].step = "open" => removal[n].opened = removal[n].of
           /\ removal[n].step \in {"empty", "rmdir"} /\ "taken" \notin lost[removal[n].opened] =>
                 removal[n].opened = removal[n].of
<1>1. RemovalFits(evaluator[n], n, removal[n], lost)
    BY DEF EvaluationInv, RemovalsFit
<1>2. removal[n] \in RemovalStates
    BY EvaluationTypes DEF EvaluationInv
<1>3. /\ removal[n].of \in Evaluations /\ removal[n].opened \in Evaluations
      /\ removal[n].side \in ResultSides
    BY <1>2 DEF RemovalStates
<1>4. QED
    BY <1>1, <1>2, <1>3 DEF RemovalFits, GivingUp, EvaluatorSteps, WorkingSteps

LEMMA OpensMoves ==
    ASSUME EvaluationInv, NEW n \in Evaluations, removal[n].step # "none",
           NEW k \in Evaluations, NEW step \in {"open", "empty", "rmdir"}, Opens(n, k, step),
           LossesStay,
           k # removal[n].of => step # "open" /\ "taken" \in lost'[k]
    PROVE  \E w, r : Moves(n, w, r)
<1> DEFINE r == [removal[n] EXCEPT !.step = step, !.opened = k]
<1>1. /\ evaluator[n] \in GivingUp \cup {"sweep"} /\ evaluator[n] \notin {"idle", "done"}
      /\ evaluator[n] \in EvaluatorSteps \ {"idle"}
      /\ evaluator[n] \in GivingUp => removal[n].of = n
      /\ evaluator[n] = "sweep" => removal[n].of < n
      /\ removal[n] \in RemovalStates
    BY RemovingWorker
<1>2. /\ evaluator \in [Evaluations -> EvaluatorSteps]
      /\ removal \in [Evaluations -> RemovalStates]
    BY EvaluationTypes DEF EvaluationInv
<1>3. removal' = [removal EXCEPT ![n] = r] /\ evaluator' = [evaluator EXCEPT ![n] = evaluator[n]]
    BY <1>2 DEF Opens
<1>4. r \in RemovalStates /\ r.step = step /\ r.opened = k /\ r.of = removal[n].of
    BY <1>1 DEF RemovalStates
<1> HIDE DEF r
<1>5. RemovalFits(evaluator[n], n, r, lost')
    BY <1>1, <1>4 DEF RemovalFits
<1>6. Moves(n, evaluator[n], r)
    BY <1>1, <1>3, <1>4, <1>5 DEF Moves
<1>7. QED
    BY <1>6

LEMMA SideDoneMoves ==
    ASSUME EvaluationInv, NEW n \in Evaluations, removal[n].step # "none",
           NEW ok \in BOOLEAN, SideDone(n, ok), UNCHANGED lost
    PROVE  \E w, r : Moves(n, w, r)
<1>1. /\ evaluator[n] \in GivingUp \cup {"sweep"} /\ evaluator[n] \notin {"idle", "done"}
      /\ evaluator[n] \in EvaluatorSteps \ {"idle"}
      /\ evaluator[n] \in GivingUp => removal[n].of = n
      /\ evaluator[n] = "sweep" => removal[n].of < n
      /\ removal[n] \in RemovalStates /\ LossesStay
    BY RemovingWorker, NothingLost
<1> DEFINE own == evaluator[n] \in GivingUp
           stage == removal[n].side = "stage"
           next == [removal[n] EXCEPT !.step = "find", !.side = "final"]
           w == IF own \/ (ok /\ stage) THEN evaluator[n]
                ELSE IF ok THEN "evaluate" ELSE "failing"
           r == IF ~own /\ ~ok THEN OwnRemoval(n) ELSE IF stage THEN next ELSE NoRemoval
<1>2. removal' = [removal EXCEPT ![n] = r] /\ evaluator' = [evaluator EXCEPT ![n] = w]
    BY DEF SideDone
<1>3. next \in RemovalStates /\ next.step = "find" /\ next.of = removal[n].of
    BY <1>1 DEF RemovalStates, ResultSides
<1> HIDE DEF next
<1>4. r \in RemovalStates /\ w \in EvaluatorSteps \ {"idle"}
    BY <1>1, <1>3, RemovalsTyped DEF EvaluatorSteps, WorkingSteps, GivingUp
<1>5. RemovalFits(w, n, r, lost')
    <2>1. CASE ~own /\ ~ok
        BY <1>1, <2>1, RemovalsTyped DEF RemovalFits, GivingUp
    <2>2. CASE (own \/ ok) /\ stage
        BY <1>1, <1>3, <2>2 DEF RemovalFits
    <2>3. CASE (own \/ ok) /\ ~stage
        BY <2>3 DEF RemovalFits, NoRemoval
    <2>4. QED
        BY <2>1, <2>2, <2>3
<1>6. Moves(n, w, r)
    BY <1>1, <1>2, <1>4, <1>5 DEF Moves
<1>7. QED
    BY <1>6
\* The steps of a removal, none of which writes a row.
LEMMA LeftoverKeeps ==
    ASSUME EvaluationInv, NEW n \in Evaluations, RemoveLeftover(n)
    PROVE  EvaluationInv'
<1>1. /\ removal[n].step # "none" /\ UNCHANGED evalRowVars
    BY DEF RemoveLeftover, FindStage, ReadFinal, OpenFinal, EmptyResult, RemoveResult
<1>2. /\ removal[n].of \in Evaluations /\ removal[n].opened \in Evaluations
      /\ removal[n].side \in ResultSides
      /\ removal[n].step = "open" => removal[n].opened = removal[n].of
      /\ removal[n].step \in {"empty", "rmdir"} /\ "taken" \notin lost[removal[n].opened] =>
            removal[n].opened = removal[n].of
      /\ UNCHANGED lost => LossesStay
    BY <1>1, RemovingWorker, NothingLost
<1>3. result \in [Evaluations -> ResultStates]
    BY EvaluationTypes DEF EvaluationInv
<1>4. Published \subseteq Evaluations
    BY DEF Published
<1> DEFINE Removes == \E w, r : Moves(n, w, r)
<1>5. CASE FindStage(n)
    <2>1. UNCHANGED <<result, lost>>
        BY <1>5 DEF FindStage
    <2>2. Opens(n, removal[n].of, "empty") \/ SideDone(n, TRUE)
        BY <1>5 DEF FindStage
    <2>3. Removes
        BY <1>1, <1>2, <2>1, <2>2, OpensMoves, SideDoneMoves
    <2>4. QED
        BY <1>1, <2>1, <2>3, WorkerKeeps, SameTouches
<1>6. CASE ReadFinal(n)
    <2>1. UNCHANGED <<result, lost>>
        BY <1>6 DEF ReadFinal
    <2>2. Opens(n, removal[n].of, "open") \/ SideDone(n, TRUE) \/ SideDone(n, FALSE)
        BY <1>6 DEF ReadFinal
    <2>3. Removes
        BY <1>1, <1>2, <2>1, <2>2, OpensMoves, SideDoneMoves
    <2>4. QED
        BY <1>1, <2>1, <2>3, WorkerKeeps, SameTouches
<1>7. CASE OpenFinal(n)
    <2>1. UNCHANGED result /\ removal[n].step = "open"
        BY <1>7 DEF OpenFinal
    <2>2. CASE SideDone(n, TRUE) /\ UNCHANGED lost
        BY <1>1, <2>1, <2>2, SideDoneMoves, WorkerKeeps, SameTouches
    <2>3. ASSUME NEW k \in Published, Opens(n, k, "empty"),
                 lost' = IF k # removal[n].of /\ removal[n].opened = removal[n].of
                         THEN [lost EXCEPT ![k] = @ \cup {"taken"}] ELSE lost
          PROVE  EvaluationInv'
        <3>1. k \in Evaluations /\ lost \in [Evaluations -> SUBSET Losses]
            BY <1>4, EvaluationTypes DEF EvaluationInv
        <3>2. LossesStay
            BY <2>3, <3>1 DEF LossesStay, Losses
        <3>3. k # removal[n].of => "taken" \in lost'[k]
            BY <1>2, <2>1, <2>3, <3>1
        <3>4. Removes
            BY <1>1, <2>3, <3>1, <3>2, <3>3, OpensMoves
        <3>5. QED
            BY <1>1, <2>1, <3>4, WorkerKeeps, SameTouches
    <2>4. QED
        BY <1>7, <2>2, <2>3 DEF OpenFinal
<1>8. CASE EmptyResult(n)
    <2> DEFINE k == removal[n].opened
    <2>1. UNCHANGED lost /\ removal[n].step = "empty"
        BY <1>8 DEF EmptyResult
    <2>2. CASE /\ Opens(n, k, "rmdir")
               /\ result' = IF result[k].at = "none" THEN result
                            ELSE [result EXCEPT ![k].content = "broken"]
        <3>1. result[k] \in ResultStates
            BY <1>2, <1>3
        <3>2. [result[k] EXCEPT !.content = "broken"] \in ResultStates
            BY <3>1 DEF ResultStates
        <3>3. Touches(n)
            BY <1>2, <1>3, <2>1, <2>2, <3>2 DEF Touches
        <3>4. Removes
            BY <1>1, <1>2, <2>1, <2>2, OpensMoves
        <3>5. QED
            BY <1>1, <3>3, <3>4, WorkerKeeps
    <2>3. CASE SideDone(n, FALSE) /\ UNCHANGED result
        BY <1>1, <2>1, <2>3, SideDoneMoves, WorkerKeeps, SameTouches
    <2>4. QED
        BY <1>8, <2>2, <2>3 DEF EmptyResult
<1>9. CASE RemoveResult(n)
    <2> DEFINE k == removal[n].opened
    <2>1. UNCHANGED lost /\ removal[n].step = "rmdir"
        BY <1>9 DEF RemoveResult
    <2>2. CASE PutResult(k, "none", "none") /\ SideDone(n, TRUE)
        <3>1. [at |-> "none", content |-> "none"] \in ResultStates
            BY DEF ResultStates
        <3>2. Touches(n)
            BY <1>2, <1>3, <2>1, <2>2, <3>1 DEF Touches, PutResult
        <3>3. QED
            BY <1>1, <2>1, <2>2, <3>2, SideDoneMoves, WorkerKeeps
    <2>3. CASE SideDone(n, FALSE) /\ UNCHANGED result
        BY <1>1, <2>1, <2>3, SideDoneMoves, WorkerKeeps, SameTouches
    <2>4. QED
        BY <1>9, <2>2, <2>3 DEF RemoveResult
<1>10. QED
    BY <1>5, <1>6, <1>7, <1>8, <1>9 DEF RemoveLeftover

(***************************************************************************)
(* The steps that write rows.                                              *)
(***************************************************************************)

\* What the end of an evaluation at work leaves.
LEMMA EndedEvaluation ==
    ASSUME EvaluationInv, NEW status \in {"succeeded", "failed", "cancelled"},
           EndEvaluation(status), evaluation.status \in {"queued", "running"}
    PROVE  /\ evaluation' \in EvaluationRow
           /\ evaluation'.status = status /\ evaluation'.attempt = evaluation.attempt
           /\ evaluation'.cancel = evaluation.cancel
           /\ evaluation.attempt \in Evaluations
           /\ evalAttempt' \in [Evaluations -> EvaluationAttemptStatus]
           /\ \A n \in Evaluations :
                 evalAttempt'[n] = "succeeded" =>
                    status = "succeeded" /\ n = evaluation.attempt
           /\ evaluation.status = "running" => evalAttempt'[evaluation.attempt] = status
<1>1. /\ evaluation \in EvaluationRow /\ evaluation.attempt \in Evaluations
      /\ evalAttempt \in [Evaluations -> EvaluationAttemptStatus]
    BY EvaluationTypes DEF EvaluationInv
<1>2. /\ evaluation' \in EvaluationRow
      /\ evaluation'.status = status /\ evaluation'.attempt = evaluation.attempt
      /\ evaluation'.cancel = evaluation.cancel
    BY <1>1 DEF EndEvaluation, EvaluationRow
<1>3. \A n \in Evaluations : evalAttempt'[n] =
          IF n = evaluation.attempt /\ evalAttempt[n] = "running" THEN status ELSE evalAttempt[n]
    BY DEF EndEvaluation
<1>4. evalAttempt' \in [Evaluations -> EvaluationAttemptStatus]
    BY <1>1, <1>3 DEF EndEvaluation, EvaluationAttemptStatus
<1>5. \A n \in Evaluations : evalAttempt[n] # "succeeded"
    BY DEF EvaluationInv, AttemptsFit
<1>6. evaluation.status = "running" => evalAttempt[evaluation.attempt] = "running"
    BY DEF EvaluationInv, AttemptsFit
<1>7. QED
    BY <1>1, <1>2, <1>3, <1>4, <1>5, <1>6

\* An evaluation that ends without success, with nobody at work on disk.
LEMMA EndKeeps ==
    ASSUME EvaluationInv, NEW status \in {"failed", "cancelled"},
           EndEvaluation(status), evaluation.status \in {"queued", "running"},
           UNCHANGED <<eligible, result, evaluator, removal, lost>>
    PROVE  EvaluationInv'
<1>1. /\ evaluation' \in EvaluationRow
      /\ evaluation'.status = status /\ evaluation'.attempt = evaluation.attempt
      /\ evaluation.attempt \in Evaluations
      /\ evalAttempt' \in [Evaluations -> EvaluationAttemptStatus]
      /\ \A n \in Evaluations : evalAttempt'[n] # "succeeded"
    BY EndedEvaluation
<1>2. EvaluationTypeOK'
    BY <1>1, EvaluationTypes, EvaluationTypesNext DEF EvaluationInv
<1>3. RemovalsFit'
    BY DEF EvaluationInv, RemovalsFit
<1>4. AttemptsFit'
    BY <1>1 DEF EvaluationInv, AttemptsFit
<1>5. SuccessFits'
    BY <1>1 DEF SuccessFits
<1>6. QED
    BY <1>2, <1>3, <1>4, <1>5 DEF EvaluationInv

LEMMA RequestKeeps ==
    ASSUME EvaluationInv,
           \/ EnqueueEvaluation \/ CancelEvaluation \/ EvaluationLapses \/ LoseEligibility
    PROVE  EvaluationInv'
<1>1. evaluation \in EvaluationRow /\ (evaluation.status # "none" => evaluation.attempt \in Evaluations)
    BY EvaluationTypes DEF EvaluationInv
<1>2. /\ evaluation' \in EvaluationRow
      /\ evaluation'.status # "none" => evaluation'.attempt \in Evaluations
      /\ evaluation'.status = "succeeded" => evaluation' = evaluation
      /\ evaluation'.status \in {"none", "queued"} => evaluation.status \in {"none", "queued"}
      /\ evaluation'.status = "running" => evaluation.status = "running"
      /\ evaluation.status = "succeeded" => evaluation' = evaluation
      /\ evaluation.status = "none" \/ evaluation'.attempt = evaluation.attempt
    <2>1. CASE EnqueueEvaluation
        <3>1. 1 \in 0 .. MaxEvaluations /\ 1 \in Evaluations
            BY EvaluationAssumption DEF Evaluations
        <3>2. evaluation.status = "none"
              /\ evaluation' = [evaluation EXCEPT !.status = "queued", !.attempt = 1]
            BY <2>1 DEF EnqueueEvaluation, EvaluationRequest
        <3>3. /\ evaluation' \in EvaluationRow
              /\ evaluation'.status = "queued" /\ evaluation'.attempt = 1
            BY <1>1, <3>1, <3>2 DEF EvaluationRow
        <3>4. QED
            BY <3>1, <3>2, <3>3
    <2>2. CASE CancelEvaluation
        BY <1>1, <2>2 DEF CancelEvaluation, EvaluationRequest, EvaluationRow
    <2>3. CASE EvaluationLapses
        BY <1>1, <2>3 DEF EvaluationLapses, EvaluationRequest, EvaluationRow
    <2>4. CASE LoseEligibility
        BY <1>1, <2>4 DEF LoseEligibility
    <2>5. QED
        BY <2>1, <2>2, <2>3, <2>4
<1>3. UNCHANGED <<evalAttempt, result, evaluator, removal, lost>> /\ eligible' \in BOOLEAN
    BY EvaluationTypes
    DEF EvaluationInv, EnqueueEvaluation, CancelEvaluation, EvaluationLapses, LoseEligibility, EvaluationRequest
<1>4. EvaluationTypeOK'
    BY <1>2, <1>3, EvaluationTypes, EvaluationTypesNext DEF EvaluationInv
<1>5. RemovalsFit'
    BY <1>3 DEF EvaluationInv, RemovalsFit
<1>6. AttemptsFit'
    BY <1>2, <1>3 DEF EvaluationInv, AttemptsFit
<1>7. SuccessFits'
    BY <1>2, <1>3 DEF EvaluationInv, SuccessFits, Verified, ResultIs
<1>8. QED
    BY <1>4, <1>5, <1>6, <1>7 DEF EvaluationInv
\* A claim: the attempt is one that nobody is at, the earlier ones are out.
LEMMA ClaimKeeps ==
    ASSUME EvaluationInv, ClaimEvaluation
    PROVE  EvaluationInv'
<1> DEFINE last == evaluation.attempt
           stale == evaluation.status = "running"
           next == IF stale THEN last + 1 ELSE last
<1>1. /\ evaluation \in EvaluationRow
      /\ evalAttempt \in [Evaluations -> EvaluationAttemptStatus]
      /\ evaluator \in [Evaluations -> EvaluatorSteps]
    BY EvaluationTypes DEF EvaluationInv
<1>2. /\ evaluation.status \in {"queued", "running"}
      /\ next \in Evaluations
      /\ UNCHANGED <<eligible, result, removal, lost>>
    BY DEF ClaimEvaluation, EvaluationClaimable
<1>3. last \in Evaluations /\ next \in Nat /\ last \in Nat /\ next \in 0 .. MaxEvaluations
    BY <1>2, EvaluationTypes, EvaluationAssumption DEF EvaluationInv, Evaluations
<1>4. evaluation' = [evaluation EXCEPT !.status = "running", !.attempt = next, !.live = TRUE]
    BY DEF ClaimEvaluation
<1>5. \A n \in Evaluations : evalAttempt'[n] =
          IF n = next THEN "running" ELSE IF stale /\ n = last THEN "reclaimed" ELSE evalAttempt[n]
    BY DEF ClaimEvaluation
<1>6. evaluator' = [evaluator EXCEPT ![next] = "claimed"]
    BY DEF ClaimEvaluation
<1>7. evalAttempt' \in [Evaluations -> EvaluationAttemptStatus]
    BY <1>1, <1>5 DEF ClaimEvaluation, EvaluationAttemptStatus
<1>8. next >= last /\ (stale => next > last)
    BY <1>3
<1>9. evaluator[next] = "idle"
    BY <1>2, <1>3, <1>8 DEF EvaluationInv, AttemptsFit
<1> HIDE DEF next
<1>10. evaluation' \in EvaluationRow /\ evaluation'.status = "running" /\ evaluation'.attempt = next
    BY <1>1, <1>3, <1>4 DEF EvaluationRow
<1>11. /\ evaluator' \in [Evaluations -> EvaluatorSteps] /\ evaluator'[next] = "claimed"
       /\ \A n \in Evaluations \ {next} : evaluator'[n] = evaluator[n]
    BY <1>1, <1>2, <1>6 DEF EvaluatorSteps, WorkingSteps
<1>12. EvaluationTypeOK'
    BY <1>2, <1>7, <1>10, <1>11, EvaluationTypes, EvaluationTypesNext DEF EvaluationInv
<1>13. RemovalsFit'
    <2>1. ASSUME NEW n \in Evaluations PROVE RemovalFits(evaluator'[n], n, removal'[n], lost')
        <3>1. RemovalFits(evaluator[n], n, removal[n], lost)
            BY DEF EvaluationInv, RemovalsFit
        <3>2. CASE n # next
            BY <1>2, <1>11, <3>1, <3>2
        <3>3. CASE n = next
            <4>1. removal[n].step = "none"
                BY <1>9, <3>1, <3>3 DEF RemovalFits, GivingUp
            <4>2. QED
                BY <1>2, <4>1 DEF RemovalFits
        <3>4. QED
            BY <3>2, <3>3
    <2>2. QED
        BY <2>1 DEF RemovalsFit
<1>14. AttemptsFit'
    <2>1. ASSUME NEW n \in Evaluations, n > next PROVE evaluator'[n] = "idle"
        <3>1. n > last /\ n # next
            BY <1>3, <1>8, <2>1 DEF Evaluations
        <3>2. QED
            BY <1>11, <3>1 DEF EvaluationInv, AttemptsFit
    <2>2. ASSUME NEW n \in Evaluations PROVE evalAttempt'[n] # "succeeded"
        <3>1. evalAttempt[n] # "succeeded"
            BY <1>2 DEF EvaluationInv, AttemptsFit
        <3>2. QED
            BY <1>5, <3>1
    <2>3. evalAttempt'[next] = "running"
        BY <1>2, <1>5
    <2>4. QED
        BY <1>10, <2>1, <2>2, <2>3 DEF AttemptsFit
<1>15. SuccessFits'
    BY <1>10 DEF SuccessFits
<1>16. QED
    BY <1>12, <1>13, <1>14, <1>15 DEF EvaluationInv

\* The worker of an attempt that is owned is the last.
LEMMA OwnerIsLast ==
    ASSUME EvaluationInv, NEW n \in Evaluations, OwnsEvaluation(n)
    PROVE  evaluation.status = "running" /\ evaluation.attempt = n
BY DEF OwnsEvaluation

LEMMA FinalizeKeeps ==
    ASSUME EvaluationInv, NEW n \in Evaluations, FinalizeSuccess(n)
    PROVE  EvaluationInv'
<1>1. /\ evaluator[n] = "finalize" /\ EndEvaluation("succeeded")
      /\ evaluation.status = "running" /\ evaluation.attempt = n /\ ~evaluation.cancel
      /\ Verified(n) /\ UNCHANGED <<eligible, result>>
    BY DEF FinalizeSuccess, AuthorityHolds, HoldsEvaluation, OwnsEvaluation
<1>2. /\ evaluation' \in EvaluationRow
      /\ evaluation'.status = "succeeded" /\ evaluation'.attempt = n
      /\ evaluation'.cancel = evaluation.cancel
      /\ evalAttempt' \in [Evaluations -> EvaluationAttemptStatus]
      /\ \A k \in Evaluations : evalAttempt'[k] = "succeeded" => k = n
      /\ evalAttempt'[n] = "succeeded"
    BY <1>1, EndedEvaluation
<1>3. PICK w, r :
          /\ Moves(n, w, r)
          /\ lost'[n] = {} => w = "done"
    <2>1. CASE evaluator' = [evaluator EXCEPT ![n] = "done"] /\ UNCHANGED <<removal, lost>>
        <3>1. Moves(n, "done", removal[n])
            BY <1>1, <2>1, NoRemovalMoves DEF GivingUp, EvaluatorSteps
        <3>2. QED
            BY <3>1
    <2>2. CASE /\ evaluator' = [evaluator EXCEPT ![n] = "failing"]
               /\ removal' = [removal EXCEPT ![n] = OwnRemoval(n)]
               /\ lost' = [lost EXCEPT ![n] = @ \cup {"answer"}]
        <3>1. LossesStay /\ lost'[n] # {}
            BY <2>2, EvaluationTypes DEF EvaluationInv, LossesStay, Losses
        <3>2. Moves(n, "failing", OwnRemoval(n))
            BY <1>1, <2>2, <3>1, GivingUpMoves DEF GivingUp
        <3>3. QED
            BY <3>1, <3>2
    <2>3. QED
        BY <2>1, <2>2 DEF FinalizeSuccess
<1>4. /\ RemovalsFit'
      /\ evaluator' \in [Evaluations -> EvaluatorSteps]
      /\ removal' \in [Evaluations -> RemovalStates]
      /\ evaluator'[n] = w /\ evaluator[n] # "idle"
      /\ \A k \in Evaluations \ {n} : evaluator'[k] = evaluator[k]
    BY <1>3, MovedRemovals
<1>5. EvaluationTypeOK'
    BY <1>1, <1>2, <1>3, <1>4, EvaluationTypes, EvaluationTypesNext DEF EvaluationInv, Moves, LossesStay
<1>6. AttemptsFit'
    BY <1>1, <1>2, <1>4 DEF EvaluationInv, AttemptsFit
<1>7. SuccessFits'
    BY <1>1, <1>2, <1>3, <1>4 DEF SuccessFits, Verified, ResultIs
<1>8. QED
    BY <1>4, <1>5, <1>6, <1>7 DEF EvaluationInv

\* Done for good; only the owner writes the end into the rows.
LEMMA RecordKeeps ==
    ASSUME EvaluationInv, NEW n \in Evaluations, RecordGivenUp(n)
    PROVE  EvaluationInv'
<1>1. /\ evaluator[n] \in GivingUp /\ removal[n].step = "none"
      /\ evaluator' = [evaluator EXCEPT ![n] = "done"]
      /\ UNCHANGED <<eligible, result, removal, lost>>
    BY DEF RecordGivenUp
<1>2. removal \in [Evaluations -> RemovalStates] /\ LossesStay
    BY <1>1, NothingLost, EvaluationTypes DEF EvaluationInv
<1>3. Moves(n, "done", removal[n])
    BY <1>1, <1>2 DEF Moves, GivingUp, EvaluatorSteps, RemovalFits
<1>4. CASE UNCHANGED <<evaluation, evalAttempt>>
    BY <1>1, <1>3, <1>4, WorkerKeeps, SameTouches DEF evalRowVars
<1>5. CASE ~UNCHANGED <<evaluation, evalAttempt>>
    <2>1. PICK status \in {"failed", "cancelled"} : OwnsEvaluation(n) /\ EndEvaluation(status)
        BY <1>5 DEF RecordGivenUp
    <2>2. /\ evaluation' \in EvaluationRow
          /\ evaluation'.status = status /\ evaluation'.attempt = evaluation.attempt
          /\ evaluation.attempt \in Evaluations
          /\ evalAttempt' \in [Evaluations -> EvaluationAttemptStatus]
          /\ \A k \in Evaluations : evalAttempt'[k] # "succeeded"
        BY <2>1, EndedEvaluation DEF OwnsEvaluation
    <2>3. /\ RemovalsFit'
          /\ evaluator' \in [Evaluations -> EvaluatorSteps]
          /\ removal' \in [Evaluations -> RemovalStates]
          /\ evaluator[n] # "idle"
          /\ \A k \in Evaluations \ {n} : evaluator'[k] = evaluator[k]
        BY <1>3, MovedRemovals
    <2>4. EvaluationTypeOK'
        BY <1>1, <2>2, <2>3, EvaluationTypes, EvaluationTypesNext DEF EvaluationInv
    <2>5. AttemptsFit'
        BY <2>1, <2>2, <2>3 DEF EvaluationInv, AttemptsFit, OwnsEvaluation
    <2>6. SuccessFits'
        BY <2>2 DEF SuccessFits
    <2>7. QED
        BY <2>3, <2>4, <2>5, <2>6 DEF EvaluationInv
<1>6. QED
    BY <1>4, <1>5

(***************************************************************************)
(* The invariant holds of every evaluation.                                *)
(***************************************************************************)

LEMMA InitEvaluation == EvaluationInit => EvaluationInv
<1> SUFFICES ASSUME EvaluationInit PROVE EvaluationInv
    OBVIOUS
<1>1. NoRemoval \in RemovalStates /\ NoRemoval.step = "none" /\ NoResult \in ResultStates
    BY RemovalsTyped DEF NoRemoval, NoResult, ResultStates
<1>2. /\ evaluation.status = "none" /\ evaluation \in EvaluationRow /\ eligible = TRUE
      /\ lost = [n \in Evaluations |-> {}]
      /\ evaluator = [n \in Evaluations |-> "idle"]
      /\ evalAttempt = [n \in Evaluations |-> "none"]
      /\ removal = [n \in Evaluations |-> NoRemoval]
      /\ result = [n \in Evaluations |-> NoResult]
    BY EvaluationAssumption DEF EvaluationInit, EvaluationRow
<1>3. EvaluationTypeOK
    BY <1>1, <1>2, EvaluationTypes DEF EvaluationAttemptStatus, EvaluatorSteps
<1>4. RemovalsFit
    BY <1>1, <1>2 DEF RemovalsFit, RemovalFits
<1>5. AttemptsFit /\ SuccessFits
    BY <1>2 DEF AttemptsFit, SuccessFits
<1>6. QED
    BY <1>3, <1>4, <1>5 DEF EvaluationInv

LEMMA EvaluationStays ==
    ASSUME EvaluationInv, UNCHANGED evaluationVars
    PROVE  EvaluationInv'
<1>1. EvaluationTypeOK'
    BY EvaluationTypes, EvaluationTypesNext DEF EvaluationInv, evaluationVars
<1>2. RemovalsFit' /\ AttemptsFit' /\ SuccessFits'
    BY DEF EvaluationInv, evaluationVars, RemovalsFit, AttemptsFit, SuccessFits, Verified, ResultIs
<1>3. QED
    BY <1>1, <1>2 DEF EvaluationInv

LEMMA EvaluationKeeps == EvaluationInv /\ EvaluationNext => EvaluationInv'
<1> SUFFICES ASSUME EvaluationInv, EvaluationNext PROVE EvaluationInv'
    OBVIOUS
<1>1. CASE CancelLapsed \/ FailIneligible
    <2>1. PICK status \in {"failed", "cancelled"} :
              /\ EndEvaluation(status) /\ evaluation.status \in {"queued", "running"}
              /\ UNCHANGED <<eligible, result, evaluator, removal, lost>>
        BY <1>1 DEF CancelLapsed, FailIneligible, EvaluationClaimable
    <2>2. QED
        BY <2>1, EndKeeps
<1>2. QED
    BY <1>1, RequestKeeps, ClaimKeeps, BeginKeeps, LookingKeeps, ChildKeeps, FinalizeKeeps,
       GiveUpKeeps, RecordKeeps, LeftoverKeeps
    DEF EvaluationNext

LEMMA EvaluationInvariant == Spec => []EvaluationInv
<1>1. Init => EvaluationInv
    BY InitEvaluation DEF Init
<1>2. EvaluationInv /\ [Next]_vars => EvaluationInv'
    BY EvaluationKeeps, EvaluationStays DEF Next, vars
<1>3. QED
    BY <1>1, <1>2, PTL DEF Spec

\* An evaluation that succeeded is the success of one attempt, the last,
\* nobody had asked it to stop, and its result is at the final path; unless
\* exactly this result was lost: the answer to its commit, so that its own
\* worker cleaned it up, or to a replaced worker that opened it after it had
\* read the manifest of its own (which the repository says cannot be: see
\* RemovalsKeepScope).  It does not say that clean-ups of other attempts spare
\* it; it says that there is no third way to lose it.
THEOREM EvaluationsStandHolds == Spec => []EvaluationsStand
<1>1. EvaluationInv => EvaluationsStand
    <2> SUFFICES ASSUME EvaluationInv, evaluation.status = "succeeded"
                 PROVE  /\ ~evaluation.cancel
                        /\ {n \in Evaluations : evalAttempt[n] = "succeeded"} = {evaluation.attempt}
                        /\ lost[evaluation.attempt] = {} => ResultIs(evaluation.attempt, "final", "closed")
        BY DEF EvaluationsStand
    <2>1. evaluation.attempt \in Evaluations
        BY EvaluationTypes DEF EvaluationInv
    <2>2. QED
        BY <2>1 DEF EvaluationInv, AttemptsFit, SuccessFits, Verified
<1>2. QED
    BY <1>1, EvaluationInvariant, PTL

(***************************************************************************)
(* The invariant of a source and its dataset.                              *)
(***************************************************************************)

\* Attempts that were not made yet have no worker, those given up are behind
\* or the build is over, and success is one of the last attempt, whose worker
\* is done.  Only a build that succeeded is reviewed, only an approved one is
\* depended on, and may be archived then.
BuildFits ==
    /\ \A n \in Tries :
          /\ n > build.attempt => worker[n] = "idle" /\ tries[n] = "none"
          /\ build.status \in {"none", "queued"} => worker[n] = "idle" /\ tries[n] = "none"
          /\ tries[n] \in GivenUp => n < build.attempt \/ build.status \in {"failed", "cancelled"}
          /\ tries[n] = "succeeded" =>
                build.status = "succeeded" /\ n = build.attempt /\ worker[n] = "done"
    /\ build.status \in {"running", "succeeded"} => tries[build.attempt] = build.status
    /\ build.review # "not_ready" => build.status = "succeeded"
    /\ dependent => build.review \in {"approved", "archived"}

\* An item of reconciliation is of an attempt that was given up, an item of a
\* purge of what is no longer wanted.
ItemsFit ==
    /\ \A n \in Tries, s \in Sides : reconciling[n][s] = "registered" => tries[n] \in GivenUp
    /\ \A n \in purging \ {0} :
          /\ build.status = "succeeded" /\ n = build.attempt
          /\ build.review \in {"rejected", "archived"} /\ ~dependent
    /\ 0 \in purging => bundle = "archived"

\* The source: no bundle without its import; no items of an import that is
\* over, but those it was committed under; no purge before that of its build.
SourceFits ==
    /\ bundle # "none" => importing = "committed"
    /\ \A s \in Sides : reconciling[0][s] = "registered" =>
          importing \in Unfinished \/ "commit" \in raced
    /\ 0 \in purging \/ bundle = "purged" => build.status = "none" \/ build.review = "purged"

\* What a removal is about.  A worker removes an earlier attempt, the command
\* what it has an item for; a final it purges is as it found it.
CleanupFits(p) == sweep[p].step # "none" =>
    /\ worker[p] = "sweep" /\ ~sweep[p].purge
    /\ sweep[p].n \in Tries /\ sweep[p].n < p
MaintenanceFits == sweep[0].step # "none" =>
    IF sweep[0].purge THEN sweep[0].side = "final" /\ sweep[0].n \in purging
                      ELSE reconciling[sweep[0].n][sweep[0].side] = "registered"
PurgeFinds == sweep[0].purge =>
    /\ sweep[0].step = "empty" => Lies(sweep[0].n, "final", "closed")
    /\ sweep[0].step = "rmdir" => place[sweep[0].n].at = "final"
    /\ sweep[0].step = "end" /\ sweep[0].ok =>
          place[sweep[0].n].at # "final" \/ (sweep[0].n = 0 /\ "rename" \in raced)
SweepsFit == MaintenanceFits /\ PurgeFinds /\ \A p \in Tries : CleanupFits(p)

\* A dataset was published before its attempt succeeded.
SuccessPublished == \A n \in Tries : tries[n] = "succeeded" => place[n].at # "stage"

SftInv ==
    /\ SftTypeOK /\ BuildFits /\ ItemsFit /\ SourceFits /\ SweepsFit /\ SuccessPublished
    /\ DatasetsStand

(***************************************************************************)
(* The parts of the type invariant.                                        *)
(***************************************************************************)

ImporterSteps == {"idle", "stage", "reopen", "retain", "write", "staged",
                  "close", "rename", "verify", "mark", "commit"}
BuildRow == [status : {"none", "queued", "running", "succeeded", "failed", "cancelled"},
             attempt : Places, live : BOOLEAN, cancel : BOOLEAN,
             review : {"not_ready", "pending", "approved", "rejected", "archived", "purged"}]
TryStatus == GivenUp \cup {"none", "running", "succeeded"}
WorkerSteps == Guarded \cup {"idle", "open", "write", "record", "complete", "done"}

ImportTyped ==
    /\ bundle \in {"none", "active", "archived", "purged"}
    /\ importing \in Unfinished \cup {"none", "committed", "failed"}
    /\ importer \in [Importers -> ImporterSteps]
    /\ raced \subseteq {"commit", "rename"}
BuildTyped ==
    /\ build \in BuildRow
    /\ build.status # "none" => build.attempt \in Tries
    /\ tries \in [Tries -> TryStatus]
    /\ owned \subseteq Tries /\ cleaned \subseteq Tries /\ checked \subseteq Tries
    /\ worker \in [Tries -> WorkerSteps]
    /\ dependent \in BOOLEAN
PlaceTyped == place \in [Places -> PlaceStates]
ItemsTyped ==
    /\ reconciling \in [Places -> [Sides -> {"none", "registered", "completed"}]]
    /\ purging \subseteq Places
SweepTyped == sweep \in [Places -> Sweeps]

LEMMA SftTypes ==
    SftTypeOK <=> ImportTyped /\ BuildTyped /\ PlaceTyped /\ ItemsTyped /\ SweepTyped
BY DEF SftTypeOK, ImportTyped, BuildTyped, PlaceTyped, ItemsTyped, SweepTyped,
       ImporterSteps, BuildRow, TryStatus, WorkerSteps

LEMMA SftTypesNext ==
    SftTypeOK' <=> (ImportTyped /\ BuildTyped /\ PlaceTyped /\ ItemsTyped /\ SweepTyped)'
BY DEF SftTypeOK, ImportTyped, BuildTyped, PlaceTyped, ItemsTyped, SweepTyped,
       ImporterSteps, BuildRow, TryStatus, WorkerSteps

LEMMA PlacesOf ==
    /\ 0 \in Places /\ 1 \in Tries /\ 0 \notin Tries
    /\ \A n \in Tries : n \in Places /\ n \in Nat
    /\ \A n \in Places : n = 0 \/ n \in Tries
BY SftAssumption DEF Places, Tries

\* What may be removed.
Disposable(n) ==
    \/ n = 0 /\ (importing \in Unfinished \/ "commit" \in raced \/ 0 \in purging)
    \/ n \in Tries /\ (tries[n] \in GivenUp \/ n < build.attempt \/ n \in purging)

LEMMA SweptIsDisposable ==
    ASSUME SftInv, NEW p \in Places, sweep[p].step # "none"
    PROVE  /\ sweep[p].n \in Places /\ Disposable(sweep[p].n)
           /\ p # 0 => sweep[p].n \in Tries /\ sweep[p].n < build.attempt
<1>1. sweep[p] \in Sweeps /\ build \in BuildRow
    BY SftTypes DEF SftInv, SweepTyped, BuildTyped
<1>2. sweep[p].n \in Places /\ sweep[p].side \in Sides
    BY <1>1 DEF Sweeps
<1>3. CASE p = 0
    <2>1. CASE sweep[0].purge
        BY <1>2, <1>3, <2>1, PlacesOf DEF SftInv, SweepsFit, MaintenanceFits, Disposable
    <2>2. CASE ~sweep[0].purge
        <3>1. reconciling[sweep[p].n][sweep[p].side] = "registered"
            BY <1>3, <2>2 DEF SftInv, SweepsFit, MaintenanceFits
        <3>2. QED
            BY <1>2, <1>3, <3>1, PlacesOf DEF SftInv, ItemsFit, SourceFits, Disposable
    <2>3. QED
        BY <2>1, <2>2
<1>4. CASE p # 0
    <2>1. p \in Tries /\ p \in Nat
        BY <1>4, PlacesOf
    <2>2. worker[p] = "sweep" /\ sweep[p].n \in Tries /\ sweep[p].n < p
        BY <2>1 DEF SftInv, SweepsFit, CleanupFits
    <2>3. ~(p > build.attempt)
        BY <2>1, <2>2 DEF SftInv, BuildFits
    <2>4. build.attempt \in Nat /\ sweep[p].n \in Nat
        BY <1>1, <2>2 DEF BuildRow, Places, Tries
    <2>5. sweep[p].n < build.attempt
        BY <2>1, <2>2, <2>3, <2>4
    <2>6. QED
        BY <1>2, <2>2, <2>5 DEF Disposable
<1>5. QED
    BY <1>3, <1>4

(***************************************************************************)
(* Steps of the rows of a build.                                           *)
(***************************************************************************)

GivenUpStays == \A n \in Tries : tries[n] \in GivenUp => tries'[n] \in GivenUp

\* A build that has not succeeded, before and after: nothing is promised yet.
LEMMA AtWorkKeeps ==
    ASSUME SftInv, Others, BuildTyped', BuildFits', SweepTyped', SweepsFit', GivenUpStays,
           build.status # "succeeded", build'.status # "succeeded",
           build'.status = build.status \/ build.status # "none" \/ bundle = "active"
    PROVE  SftInv'
<1>1. SftTypeOK'
    BY SftTypes, SftTypesNext DEF SftInv, Others, importVars, itemVars, ImportTyped, PlaceTyped, ItemsTyped
<1>2. purging \ {0} = {}
    BY DEF SftInv, ItemsFit
<1>3. ItemsFit'
    BY <1>2 DEF SftInv, ItemsFit, Others, importVars, itemVars, GivenUpStays
<1>4. build.review = "not_ready" /\ build'.review = "not_ready" /\ ~dependent'
    BY DEF SftInv, BuildFits
<1>5. SourceFits'
    BY <1>4 DEF SftInv, SourceFits, ItemsFit, Others, importVars, itemVars
<1>6. SuccessPublished'
    BY DEF SuccessPublished, BuildFits
<1>7. DatasetsStand'
    BY <1>4 DEF SftInv, DatasetsStand, Others, importVars, Lies
<1>8. QED
    BY <1>1, <1>3, <1>5, <1>6, <1>7 DEF SftInv

LEMMA SameSweeps ==
    ASSUME SftInv, Others, UNCHANGED <<sweep, worker>>
    PROVE  SweepTyped' /\ SweepsFit'
BY SftTypes
DEF SftInv, Others, importVars, itemVars, SweepTyped, SweepsFit, MaintenanceFits, PurgeFinds, CleanupFits, Lies

LEMMA BuildTypes ==
    ASSUME SftInv
    PROVE  /\ build \in BuildRow /\ build.attempt \in Nat
           /\ build.status # "none" => build.attempt \in Tries
           /\ tries \in [Tries -> TryStatus] /\ worker \in [Tries -> WorkerSteps]
           /\ sweep \in [Places -> Sweeps]
BY SftTypes DEF SftInv, BuildTyped, SweepTyped, BuildRow, Places

\* The API before success, and the clock.
LEMMA RequestBuild ==
    ASSUME SftInv, EnqueueBuild \/ CancelBuild \/ LeaseLapses
    PROVE  SftInv'
<1>1. UNCHANGED <<tries, owned, cleaned, worker, checked, dependent, sweep>> /\ Others
    BY DEF EnqueueBuild, CancelBuild, LeaseLapses
<1>2. build \in BuildRow /\ 1 \in Places /\ 1 \in Tries
    BY BuildTypes, PlacesOf
<1>3. /\ build' \in BuildRow /\ build'.review = build.review
      /\ build.status # "succeeded" /\ build'.status # "succeeded"
      /\ build'.status = build.status \/ build.status # "none" \/ bundle = "active"
      /\ \/ build'.attempt = build.attempt /\ build.status # "none"
         \/ build'.attempt = 1 /\ build.status = "none"
      /\ build'.status = "queued" => build.status \in {"none", "queued"}
      /\ build'.status = "running" => build.status = "running"
      /\ build.status \in {"failed", "cancelled"} => build'.status = build.status
      /\ build'.status # "none"
    <2>1. CASE EnqueueBuild
        <3>1. bundle = "active" /\ build.status = "none"
              /\ build' = [build EXCEPT !.status = "queued", !.attempt = 1]
            BY <2>1 DEF EnqueueBuild
        <3>2. QED
            BY <1>2, <3>1 DEF BuildRow
    <2>2. CASE CancelBuild
        BY <1>2, <2>2 DEF CancelBuild, BuildRow
    <2>3. CASE LeaseLapses
        BY <1>2, <2>3 DEF LeaseLapses, BuildRow
    <2>4. QED
        BY <2>1, <2>2, <2>3
<1>4. BuildTyped'
    BY <1>1, <1>2, <1>3, SftTypes DEF SftInv, BuildTyped
<1>5. \A n \in Tries : build.status = "none" => worker[n] = "idle" /\ tries[n] = "none"
    BY DEF SftInv, BuildFits
<1>6. BuildFits'
    BY <1>1, <1>3, <1>5 DEF SftInv, BuildFits, GivenUp
<1>7. QED
    BY <1>1, <1>3, <1>4, <1>6, SameSweeps, AtWorkKeeps DEF GivenUpStays(***************************************************************************)
(* Steps of the source.                                                    *)
(***************************************************************************)

\* What an importer does to the directory of the import, and to its rows.
Imports ==
    /\ importer' \in [Importers -> ImporterSteps]
    /\ importing' \in Unfinished \cup {"none", "committed", "failed"}
    /\ PlaceTyped' /\ \A n \in Tries : place'[n] = place[n]
    /\ place[0].at = "final" => place'[0] = place[0]
    /\ place'[0].at = "final" => place[0].at \in {"stage", "final"}
    /\ bundle # "none" => importing' = importing
    /\ \/ bundle' = bundle /\ (importing \in Unfinished => importing' \in Unfinished)
       \/ /\ bundle = "none" /\ bundle' = "active" /\ importing' = "committed"
          /\ Lies(0, "final", "closed")

LEMMA Proceeds ==
    ASSUME ImportTyped, NEW i \in Importers, NEW s, NEW t \in ImporterSteps, Proceed(i, s, t)
    PROVE  importer' \in [Importers -> ImporterSteps]
BY DEF ImportTyped, Proceed

LEMMA PutsSource ==
    ASSUME PlaceTyped, NEW at \in {"none", "stage", "final"},
           NEW content \in {"none", "marked", "open", "closed", "broken"}, Put(0, at, content)
    PROVE  /\ PlaceTyped' /\ \A n \in Tries : place'[n] = place[n]
           /\ place'[0].at = at
BY PlacesOf DEF PlaceTyped, Put, PlaceStates, Sides

LEMMA LiesThere == \A n, at, content : Lies(n, at, content) => place[n].at = at
BY DEF Lies

LEMMA Importing ==
    ASSUME ImportTyped, PlaceTyped, SourceFits, NEW i \in Importers,
           \/ RegisterSource(i) \/ StageSource(i) \/ ReopenSource(i) \/ WriteSource(i)
           \/ MarkSource(i) \/ PublishSource(i) \/ CommitSource(i) \/ EndImporter(i)
    PROVE  Imports
<1>1. CASE RegisterSource(i)
    <2>1. importer' \in [Importers -> ImporterSteps]
        BY <1>1, Proceeds DEF RegisterSource, ImporterSteps
    <2>2. QED
        BY <1>1, <2>1 DEF RegisterSource, Imports, ImportTyped, PlaceTyped, Unfinished
<1>2. CASE StageSource(i)
    <2>1. importer' \in [Importers -> ImporterSteps]
        BY <1>2, Proceeds DEF StageSource, ImporterSteps
    <2>2. UNCHANGED <<bundle, importing>> /\ importing \in Unfinished \cup {"none", "committed", "failed"}
        BY <1>2 DEF StageSource, ImportTyped
    <2>3. CASE place' = place
        BY <2>1, <2>2, <2>3, <1>2, LiesThere DEF Imports, PlaceTyped
    <2>4. CASE Lies(0, "none", "none") /\ Put(0, "stage", "marked")
        BY <2>1, <2>2, <2>4, PutsSource, LiesThere DEF Imports
    <2>5. QED
        BY <1>2, <2>3, <2>4 DEF StageSource
<1>3. CASE ReopenSource(i)
    <2>1. importer' \in [Importers -> ImporterSteps]
        BY <1>3, Proceeds DEF ReopenSource, ImporterSteps
    <2>2. QED
        BY <1>3, <2>1 DEF ReopenSource, Imports, ImportTyped, PlaceTyped
<1>4. CASE WriteSource(i)
    <2>1. importer' \in [Importers -> ImporterSteps]
        BY <1>4, Proceeds DEF WriteSource, ImporterSteps
    <2>2. UNCHANGED <<bundle, importing>> /\ importing \in Unfinished \cup {"none", "committed", "failed"}
          /\ Lies(0, "stage", "marked") /\ Put(0, "stage", "open")
        BY <1>4 DEF WriteSource, ImportTyped
    <2>3. QED
        BY <2>1, <2>2, PutsSource, LiesThere DEF Imports
<1>5. CASE MarkSource(i)
    <2>1. importer' \in [Importers -> ImporterSteps]
        BY <1>5, Proceeds DEF MarkSource, ImporterSteps
    <2>2. QED
        BY <1>5, <2>1 DEF MarkSource, Imports, ImportTyped, PlaceTyped, Unfinished, SourceFits
<1>6. CASE PublishSource(i)
    <2>1. importer' \in [Importers -> ImporterSteps]
        BY <1>6, Proceeds DEF PublishSource, ImporterSteps
    <2>2. UNCHANGED <<bundle, importing>> /\ importing \in Unfinished \cup {"none", "committed", "failed"}
        BY <1>6 DEF PublishSource, ImportTyped
    <2>3. CASE place' = place
        BY <2>1, <2>2, <2>3, <1>6, LiesThere DEF Imports, PlaceTyped
    <2>4. CASE Lies(0, "stage", "open") /\ Put(0, "stage", "closed")
        BY <2>1, <2>2, <2>4, PutsSource, LiesThere DEF Imports
    <2>5. CASE Lies(0, "stage", "closed") /\ Put(0, "final", "closed")
        BY <2>1, <2>2, <2>5, PutsSource, LiesThere DEF Imports
    <2>6. QED
        BY <1>6, <2>3, <2>4, <2>5 DEF PublishSource
<1>7. CASE CommitSource(i)
    <2>1. importer' \in [Importers -> ImporterSteps]
        BY <1>7, Proceeds DEF CommitSource, ImporterSteps
    <2>2. QED
        BY <1>7, <2>1 DEF CommitSource, Imports, PlaceTyped
<1>8. CASE EndImporter(i)
    <2>1. importer' \in [Importers -> ImporterSteps]
        BY <1>8, Proceeds DEF EndImporter, ImporterSteps
    <2>2. QED
        BY <1>8, <2>1 DEF EndImporter, Imports, ImportTyped, PlaceTyped
<1>9. QED
    BY <1>1, <1>2, <1>3, <1>4, <1>5, <1>6, <1>7, <1>8
LEMMA ImportKeeps ==
    ASSUME SftInv, NEW i \in Importers, ImportSource(i)
    PROVE  SftInv'
<1>1. ImportTyped /\ PlaceTyped /\ BuildTyped /\ ItemsTyped /\ SweepTyped
    BY SftTypes DEF SftInv
<1>2. UNCHANGED <<buildVars, itemVars, sweep>>
      /\ raced' = raced \cup CommittedUnderItems \cup PublishedAgain
    BY DEF ImportSource
<1>3. Imports
    <2>1. SourceFits
        BY DEF SftInv
    <2>2. QED
        BY <1>1, <2>1, Importing DEF ImportSource
<1>4. raced \subseteq raced' /\ raced' \subseteq {"commit", "rename"}
    BY <1>1, <1>2 DEF CommittedUnderItems, PublishedAgain, ImportTyped
<1>5. SftTypeOK'
    <2>1. ImportTyped'
        BY <1>1, <1>3, <1>4 DEF Imports, ImportTyped
    <2>2. BuildTyped' /\ ItemsTyped' /\ SweepTyped'
        BY <1>1, <1>2 DEF buildVars, itemVars, BuildTyped, ItemsTyped, SweepTyped
    <2>3. QED
        BY <2>1, <2>2, <1>3, SftTypesNext DEF Imports
<1>6. BuildFits'
    BY <1>2 DEF buildVars, SftInv, BuildFits
<1>7. ItemsFit'
    BY <1>2, <1>3 DEF buildVars, itemVars, SftInv, ItemsFit, Imports
<1>8. SourceFits'
    <2>1. bundle' # "none" => importing' = "committed"
        BY <1>3 DEF SftInv, SourceFits, Imports
    <2>2. ASSUME NEW s \in Sides, reconciling[0][s] = "registered"
          PROVE  importing' \in Unfinished \/ "commit" \in raced'
        <3>1. CASE "commit" \in raced
            BY <3>1, <1>4
        <3>2. CASE importing \in Unfinished /\ bundle' = bundle
            BY <3>2, <1>3 DEF Imports, Unfinished
        <3>3. CASE bundle' # bundle
            BY <3>3, <2>2, <1>2 DEF CommittedUnderItems
        <3>4. QED
            BY <3>1, <3>2, <3>3, <2>2 DEF SftInv, SourceFits
    <2>3. 0 \in purging \/ bundle' = "purged" => build.status = "none" \/ build.review = "purged"
        BY <1>3 DEF SftInv, SourceFits, Imports
    <2>4. QED
        BY <2>1, <2>2, <2>3, <1>2 DEF SourceFits, buildVars, itemVars
<1>9. \/ place[0].at # "final" /\ place'[0].at = "final" /\ place[0].at = "stage"
      \/ place'[0].at = "final" /\ place'[0] = place[0]
      \/ place'[0].at # "final" /\ place[0].at # "final"
    BY <1>3 DEF Imports
<1>10. place[0].at # "final" /\ place'[0].at = "final" /\ bundle # "none" => "rename" \in raced'
    BY <1>2, <1>9 DEF PublishedAgain
<1>11. \A n \in Places : place[n].at = "final" => place'[n] = place[n]
    BY <1>3, PlacesOf DEF Imports
<1>12. SweepsFit'
    <2>1. MaintenanceFits' /\ \A p \in Tries : CleanupFits(p)'
        BY <1>2 DEF buildVars, itemVars, SftInv, SweepsFit, MaintenanceFits, CleanupFits
    <2>2. sweep[0].n \in Places /\ sweep[0].step # "none" =>
              (sweep[0].purge => sweep[0].n \in purging)
        BY <1>1, PlacesOf DEF SftInv, SweepsFit, MaintenanceFits, SweepTyped, Sweeps
    <2>3. sweep[0].n \in Places
        BY <1>1, PlacesOf DEF SweepTyped, Sweeps
    <2>4. PurgeFinds
        BY DEF SftInv, SweepsFit
    <2>5. ASSUME sweep[0].purge, sweep[0].step = "end", sweep[0].ok
          PROVE  place'[sweep[0].n].at # "final" \/ (sweep[0].n = 0 /\ "rename" \in raced')
        <3>1. CASE sweep[0].n = 0
            <4>1. bundle # "none"
                BY <2>2, <2>3, <2>5, <3>1 DEF SftInv, ItemsFit
            <4>2. QED
                BY <4>1, <2>4, <2>5, <3>1, <1>4, <1>10 DEF PurgeFinds
        <3>2. CASE sweep[0].n # 0
            <4>1. place'[sweep[0].n] = place[sweep[0].n]
                BY <2>3, <3>2, <1>3, PlacesOf DEF Imports
            <4>2. QED
                BY <4>1, <2>4, <2>5, <3>2 DEF PurgeFinds
        <3>3. QED
            BY <3>1, <3>2
    <2>6. PurgeFinds'
        BY <2>3, <2>4, <2>5, <1>2, <1>11 DEF PurgeFinds, Lies
    <2>7. QED
        BY <2>1, <2>6 DEF SweepsFit
<1>13. SuccessPublished'
    BY <1>2, <1>3 DEF buildVars, SftInv, SuccessPublished, Imports
<1>14. DatasetsStand'
    <2>1. build.status # "none" => place'[build.attempt] = place[build.attempt]
        BY <1>1, <1>3 DEF Imports, BuildTyped
    <2>2. build.review # "not_ready" \/ dependent => build.status # "none"
        BY <1>1 DEF SftInv, BuildFits
    <2>3. build.review \in {"pending", "approved"} \/ dependent =>
              /\ {n \in Tries : tries[n] = "succeeded"} = {build.attempt}
              /\ Lies(build.attempt, "final", "closed")' /\ bundle' # "purged"
        BY <2>1, <2>2, <1>2, <1>3 DEF SftInv, DatasetsStand, Lies, Imports, buildVars
    <2>4. bundle' = "active" /\ "commit" \notin raced' => Lies(0, "final", "closed")'
        BY <1>3, <1>4 DEF SftInv, DatasetsStand, Lies, Imports
    <2>5. build.review = "purged" => place'[build.attempt].at = "none"
        BY <2>1, <2>2 DEF SftInv, DatasetsStand
    <2>6. bundle' = "purged" /\ "rename" \notin raced' => place'[0].at # "final"
        BY <1>3, <1>4, <1>9, <1>10 DEF SftInv, DatasetsStand, Imports
    <2>7. QED
        BY <2>3, <2>4, <2>5, <2>6, <1>2 DEF DatasetsStand, buildVars
<1>15. QED
    BY <1>5, <1>6, <1>7, <1>8, <1>12, <1>13, <1>14 DEF SftInv

LEMMA ArchiveKeeps == SftInv /\ ArchiveSource => SftInv'
<1> SUFFICES ASSUME SftInv, ArchiveSource
             PROVE  SftInv'
    OBVIOUS
<1>1. SftTypeOK'
    BY SftTypes, SftTypesNext
    DEF SftInv, ArchiveSource, buildVars, itemVars,
        ImportTyped, BuildTyped, PlaceTyped, ItemsTyped, SweepTyped
<1>2. BuildFits' /\ ItemsFit' /\ SourceFits' /\ SuccessPublished'
    BY DEF SftInv, ArchiveSource, buildVars, itemVars, BuildFits, ItemsFit, SourceFits, SuccessPublished
<1>3. SweepsFit'
    BY DEF SftInv, ArchiveSource, buildVars, itemVars, SweepsFit, MaintenanceFits, PurgeFinds, CleanupFits, Lies
<1>4. DatasetsStand'
    BY DEF SftInv, ArchiveSource, buildVars, itemVars, DatasetsStand, Lies
<1>5. QED
    BY <1>1, <1>2, <1>3, <1>4 DEF SftInv
(***************************************************************************)
(* Steps of the workers.                                                   *)
(***************************************************************************)

\* The end of a build that did not succeed, or its next attempt.
LEMMA ClaimBuildKeeps == SftInv /\ ClaimBuild => SftInv'
<1> SUFFICES ASSUME SftInv, ClaimBuild
             PROVE  SftInv'
    OBVIOUS
<1> DEFINE stale == build.status = "running"
           next == IF stale THEN build.attempt + 1 ELSE build.attempt
           first == [NoSweep EXCEPT !.step = "look", !.n = build.attempt]
<1>1. /\ build \in BuildRow /\ build.attempt \in Nat
      /\ build.status # "none" => build.attempt \in Tries
      /\ tries \in [Tries -> TryStatus] /\ worker \in [Tries -> WorkerSteps]
      /\ sweep \in [Places -> Sweeps]
    BY BuildTypes
<1>2. /\ build.status \in {"queued", "running"} /\ next \in Tries
      /\ build' = [build EXCEPT !.status = "running", !.attempt = next, !.live = TRUE]
      /\ tries' = [n \in Tries |-> IF n = next THEN "running"
                       ELSE IF stale /\ n = build.attempt THEN "reclaimed" ELSE tries[n]]
      /\ worker' = [worker EXCEPT ![next] = IF stale THEN "sweep" ELSE "open"]
      /\ sweep' = IF stale THEN [sweep EXCEPT ![next] = first] ELSE sweep
      /\ UNCHANGED <<owned, cleaned, checked, dependent>> /\ Others
    BY DEF ClaimBuild, Unclaimed
<1>3. build.attempt \in Tries /\ next \in Places /\ next # 0 /\ next \in Nat
    BY <1>1, <1>2, PlacesOf
<1>4. build' \in BuildRow /\ build'.status = "running" /\ build'.attempt = next
      /\ build'.review = build.review
    BY <1>1, <1>2, <1>3 DEF BuildRow
<1>5. /\ first.step = "look" /\ first.n = build.attempt /\ ~first.purge
      /\ first \in Sweeps
    BY <1>3, PlacesOf DEF NoSweep, Sweeps, Sides
<1>6. next >= build.attempt /\ (stale => build.attempt < next)
      /\ (~stale => next = build.attempt /\ build.status = "queued")
    BY <1>1, <1>2
<1>7. tries[next] = "none" /\ worker[next] = "idle"
    BY <1>1, <1>2, <1>3, <1>6 DEF SftInv, BuildFits
<1> HIDE DEF first, next
<1>8. BuildTyped'
    <2>1. BuildTyped
        BY SftTypes DEF SftInv
    <2>2. tries' \in [Tries -> TryStatus]
        BY <1>1, <1>2 DEF TryStatus, GivenUp
    <2>3. worker' \in [Tries -> WorkerSteps]
        BY <1>1, <1>2 DEF WorkerSteps, Guarded
    <2>4. QED
        BY <1>2, <1>4, <2>1, <2>2, <2>3 DEF BuildTyped
<1>9. BuildFits'
    <2>1. ASSUME NEW n \in Tries
          PROVE  /\ n > next => worker'[n] = "idle" /\ tries'[n] = "none"
                 /\ tries'[n] \in GivenUp => n < next
                 /\ tries'[n] # "succeeded"
        <3>1. n \in Nat
            BY PlacesOf
        <3>2. CASE n = next
            BY <1>2, <3>1, <3>2, <1>3 DEF GivenUp
        <3>3. CASE n # next
            <4>1. worker'[n] = worker[n]
                  /\ tries'[n] = IF stale /\ n = build.attempt THEN "reclaimed" ELSE tries[n]
                BY <1>1, <1>2, <3>3
            <4>2. /\ n > build.attempt => worker[n] = "idle" /\ tries[n] = "none"
                  /\ tries[n] \in GivenUp => n < build.attempt
                  /\ tries[n] # "succeeded"
                BY <1>2 DEF SftInv, BuildFits
            <4>3. QED
                BY <1>1, <1>3, <1>6, <3>1, <4>1, <4>2
        <3>4. QED
            BY <3>2, <3>3
    <2>2. tries'[next] = "running" /\ build.review = "not_ready" /\ ~dependent
        BY <1>2 DEF SftInv, BuildFits
    <2>3. QED
        BY <1>2, <1>4, <2>1, <2>2 DEF BuildFits
<1>10. GivenUpStays
    BY <1>1, <1>2, <1>7 DEF GivenUpStays, GivenUp
<1>11. SweepTyped'
    BY <1>1, <1>2, <1>5 DEF SweepTyped
<1>12. SweepsFit'
    <2>1. sweep'[0] = sweep[0]
        BY <1>1, <1>2, <1>3, PlacesOf
    <2>2. MaintenanceFits' /\ PurgeFinds'
        BY <1>2, <2>1 DEF SftInv, SweepsFit, MaintenanceFits, PurgeFinds, Others, importVars, itemVars, Lies
    <2>3. ASSUME NEW p \in Tries
          PROVE  CleanupFits(p)'
        <3>1. CASE p = next /\ stale
            <4>1. worker'[p] = "sweep" /\ sweep'[p] = first
                BY <1>1, <1>2, <1>3, <3>1
            <4>2. QED
                BY <1>3, <1>5, <1>6, <3>1, <4>1 DEF CleanupFits
        <3>2. CASE p = next /\ ~stale
            BY <1>2, <1>7, <3>2 DEF SftInv, SweepsFit, CleanupFits
        <3>3. CASE p # next
            <4>1. worker'[p] = worker[p] /\ sweep'[p] = sweep[p]
                BY <1>1, <1>2, <1>3, <3>3, PlacesOf
            <4>2. QED
                BY <4>1 DEF SftInv, SweepsFit, CleanupFits
        <3>4. QED
            BY <3>1, <3>2, <3>3
    <2>4. QED
        BY <2>2, <2>3 DEF SweepsFit
<1>13. QED
    <2>1. build.status # "succeeded" /\ build'.status # "succeeded" /\ build.status # "none"
        BY <1>2, <1>4
    <2>2. QED
        BY <2>1, <1>2, <1>8, <1>9, <1>10, <1>11, <1>12, AtWorkKeeps

LEMMA FailUnclaimedKeeps == SftInv /\ FailUnclaimed => SftInv'
<1> SUFFICES ASSUME SftInv, FailUnclaimed
             PROVE  SftInv'
    OBVIOUS
<1>1. /\ build \in BuildRow /\ build.attempt \in Nat
      /\ build.status # "none" => build.attempt \in Tries
      /\ tries \in [Tries -> TryStatus]
    BY BuildTypes
<1>2. /\ build.status \in {"queued", "running"}
      /\ build' = [build EXCEPT !.status = "failed", !.live = FALSE]
      /\ tries' = [tries EXCEPT ![build.attempt] = "failed"]
      /\ UNCHANGED <<owned, cleaned, worker, checked, dependent, sweep>> /\ Others
    BY DEF FailUnclaimed, Unclaimed
<1>3. build' \in BuildRow /\ build'.status = "failed" /\ build'.attempt = build.attempt
      /\ build'.review = build.review
    BY <1>1, <1>2 DEF BuildRow
<1>4. BuildTyped'
    <2>1. BuildTyped
        BY SftTypes DEF SftInv
    <2>2. tries' \in [Tries -> TryStatus]
        BY <1>1, <1>2 DEF TryStatus, GivenUp
    <2>3. QED
        BY <1>1, <1>2, <1>3, <2>1, <2>2 DEF BuildTyped
<1>5. BuildFits'
    <2>1. \A n \in Tries : tries'[n] = IF n = build.attempt THEN "failed" ELSE tries[n]
        BY <1>1, <1>2
    <2>2. \A n \in Tries : n > build.attempt => n # build.attempt
        BY <1>1, PlacesOf
    <2>3. QED
        BY <1>2, <1>3, <2>1, <2>2 DEF SftInv, BuildFits, GivenUp
<1>6. GivenUpStays
    BY <1>1, <1>2 DEF GivenUpStays, GivenUp
<1>7. QED
    <2>1. build.status # "succeeded" /\ build'.status # "succeeded" /\ build.status # "none"
        BY <1>2, <1>3
    <2>2. SweepTyped' /\ SweepsFit'
        BY <1>2, SameSweeps
    <2>3. QED
        BY <2>1, <2>2, <1>2, <1>4, <1>5, <1>6, AtWorkKeeps

LEMMA FailBuildKeeps ==
    ASSUME SftInv, NEW n \in Tries, FailBuild(n)
    PROVE  SftInv'
<1>1. /\ build \in BuildRow /\ build.attempt \in Nat
      /\ tries \in [Tries -> TryStatus] /\ worker \in [Tries -> WorkerSteps]
      /\ sweep \in [Places -> Sweeps]
    BY BuildTypes
<1>2. PICK status \in {"cancelled", "failed"} :
          /\ build' = [build EXCEPT !.status = status, !.live = FALSE]
          /\ tries' = [tries EXCEPT ![n] = status]
    BY DEF FailBuild
<1>3. /\ build.status = "running" /\ build.attempt = n
      /\ worker' = [worker EXCEPT ![n] = "done"]
      /\ checked' = checked \ {n}
      /\ sweep' = [sweep EXCEPT ![n] = NoSweep]
      /\ UNCHANGED <<owned, cleaned, dependent>> /\ Others
    BY DEF FailBuild, Claims
<1>4. build' \in BuildRow /\ build'.status = status /\ build'.attempt = n
      /\ build'.review = build.review
    BY <1>1, <1>2, <1>3 DEF BuildRow
<1>5. n \in Places /\ n # 0
    BY PlacesOf
<1>6. BuildTyped'
    <2>1. BuildTyped
        BY SftTypes DEF SftInv
    <2>2. tries' \in [Tries -> TryStatus]
        BY <1>1, <1>2 DEF TryStatus, GivenUp
    <2>3. worker' \in [Tries -> WorkerSteps]
        BY <1>1, <1>3 DEF WorkerSteps
    <2>4. QED
        BY <1>3, <1>4, <2>1, <2>2, <2>3 DEF BuildTyped
<1>7. BuildFits'
    <2>1. \A m \in Tries : tries'[m] = IF m = n THEN status ELSE tries[m]
        BY <1>1, <1>2
    <2>2. \A m \in Tries : worker'[m] = IF m = n THEN "done" ELSE worker[m]
        BY <1>1, <1>3
    <2>3. \A m \in Tries : m > n => m # n
        BY <1>1, PlacesOf
    <2>4. QED
        BY <1>2, <1>3, <1>4, <2>1, <2>2, <2>3 DEF SftInv, BuildFits, GivenUp
<1>8. GivenUpStays
    BY <1>1, <1>2 DEF GivenUpStays, GivenUp
<1>9. SweepTyped'
    BY <1>1, <1>3, <1>5, PlacesOf DEF SweepTyped, NoSweep, Sweeps, Sides
<1>10. SweepsFit'
    <2>1. sweep'[0] = sweep[0] /\ sweep'[n] = NoSweep
        BY <1>1, <1>3, <1>5, PlacesOf
    <2>2. MaintenanceFits' /\ PurgeFinds'
        BY <1>3, <2>1 DEF SftInv, SweepsFit, MaintenanceFits, PurgeFinds, Others, importVars, itemVars, Lies
    <2>3. ASSUME NEW p \in Tries
          PROVE  CleanupFits(p)'
        <3>1. CASE p = n
            BY <2>1, <3>1 DEF CleanupFits, NoSweep
        <3>2. CASE p # n
            <4>1. worker'[p] = worker[p] /\ sweep'[p] = sweep[p]
                BY <1>1, <1>3, <3>2, PlacesOf
            <4>2. QED
                BY <4>1 DEF SftInv, SweepsFit, CleanupFits
        <3>3. QED
            BY <3>1, <3>2
    <2>4. QED
        BY <2>2, <2>3 DEF SweepsFit
<1>11. QED
    <2>1. build.status # "succeeded" /\ build'.status # "succeeded" /\ build.status # "none"
        BY <1>2, <1>3, <1>4
    <2>2. QED
        BY <2>1, <1>3, <1>6, <1>7, <1>8, <1>9, <1>10, AtWorkKeeps
\* A worker goes on from where it is neither new nor done, and the rows that
\* say how the build stands stay: its own directory may change.
WorkerMoves(n) ==
    /\ UNCHANGED <<build, tries, dependent, importVars, itemVars>>
    /\ owned' \subseteq Tries /\ cleaned' \subseteq Tries /\ checked' \subseteq Tries
    /\ worker' \in [Tries -> WorkerSteps] /\ worker[n] \notin {"idle", "done"}
    /\ \A m \in Tries \ {n} : worker'[m] = worker[m]
    /\ PlaceTyped' /\ \A m \in Places \ {n} : place'[m] = place[m]

\* Its removals stay what they are about.
RemovalsMove ==
    /\ SweepTyped' /\ sweep'[0] = sweep[0]
    /\ \A p \in Tries : CleanupFits(p)'

LEMMA WorkerMovesKeep ==
    ASSUME SftInv, NEW n \in Tries, WorkerMoves(n), RemovalsMove
    PROVE  SftInv'
<1>1. /\ UNCHANGED <<build, tries, dependent, importVars, itemVars>>
      /\ \A m \in Places \ {n} : place'[m] = place[m]
      /\ \A m \in Tries \ {n} : worker'[m] = worker[m]
      /\ worker[n] \notin {"idle", "done"}
    BY DEF WorkerMoves
<1>2. SftTypeOK'
    <2>1. ImportTyped /\ BuildTyped /\ ItemsTyped
        BY SftTypes DEF SftInv
    <2>2. ImportTyped' /\ ItemsTyped'
        BY <2>1, <1>1 DEF ImportTyped, ItemsTyped, importVars, itemVars
    <2>3. BuildTyped'
        BY <2>1 DEF BuildTyped, WorkerMoves
    <2>4. QED
        BY <2>2, <2>3, SftTypesNext DEF WorkerMoves, RemovalsMove
<1>3. tries[n] # "succeeded" /\ ~(n > build.attempt) /\ build.status \notin {"none", "queued"}
    BY <1>1 DEF SftInv, BuildFits
<1>4. BuildFits'
    BY <1>1, <1>3 DEF SftInv, BuildFits
<1>5. ItemsFit' /\ SourceFits'
    BY <1>1 DEF SftInv, ItemsFit, SourceFits, importVars, itemVars
<1>6. build.status = "succeeded" => build.attempt # n /\ build.attempt \in Tries
    BY <1>3, BuildTypes DEF SftInv, BuildFits
<1>7. place'[0] = place[0]
      /\ (build.status = "succeeded" => place'[build.attempt] = place[build.attempt])
    BY <1>1, <1>6, PlacesOf
<1>8. SuccessPublished'
    BY <1>1, <1>3, PlacesOf DEF SftInv, SuccessPublished
<1>9. SweepsFit'
    <2>1. MaintenanceFits'
        BY <1>1 DEF RemovalsMove, SftInv, SweepsFit, MaintenanceFits, itemVars
    <2>2. ASSUME sweep[0].purge, sweep[0].step # "none"
          PROVE  place'[sweep[0].n] = place[sweep[0].n]
        <3>1. sweep[0].n \in purging
            BY <2>2 DEF SftInv, SweepsFit, MaintenanceFits
        <3>2. QED
            BY <3>1, <1>7 DEF SftInv, ItemsFit
    <2>3. PurgeFinds'
        BY <2>2, <1>1 DEF RemovalsMove, SftInv, SweepsFit, PurgeFinds, Lies, importVars
    <2>4. QED
        BY <2>1, <2>3 DEF SweepsFit, RemovalsMove
<1>10. DatasetsStand'
    BY <1>1, <1>7 DEF SftInv, BuildFits, DatasetsStand, Lies, importVars
<1>11. QED
    BY <1>2, <1>4, <1>5, <1>8, <1>9, <1>10 DEF SftInv

\* A worker that is at no removal, before and after.
LEMMA NoRemovalThen ==
    ASSUME SftInv, NEW n \in Tries, UNCHANGED sweep,
           \A m \in Tries \ {n} : worker'[m] = worker[m],
           worker[n] = "sweep" => worker'[n] = "sweep"
    PROVE  RemovalsMove
BY SftTypes DEF SftInv, SweepTyped, SweepsFit, CleanupFits, RemovalsMove

LEMMA TakesStep ==
    ASSUME SftInv, NEW n \in Tries, NEW s, NEW t \in WorkerSteps, Step(n, s, t)
    PROVE  /\ worker' \in [Tries -> WorkerSteps] /\ worker[n] = s
           /\ \A m \in Tries \ {n} : worker'[m] = worker[m]
BY BuildTypes DEF Step

LEMMA PutsBuild ==
    ASSUME SftInv, NEW n \in Tries, NEW at \in {"none", "stage", "final"},
           NEW content \in {"none", "marked", "open", "closed", "broken"}, Put(n, at, content)
    PROVE  PlaceTyped' /\ \A m \in Places \ {n} : place'[m] = place[m]
BY PlacesOf, SftTypes DEF SftInv, PlaceTyped, Put, PlaceStates, Sides

LEMMA CheckpointKeeps ==
    ASSUME SftInv, NEW n \in Tries, Checkpoint(n)
    PROVE  SftInv'
<1>1. BuildTyped /\ PlaceTyped
    BY SftTypes DEF SftInv
<1>2. WorkerMoves(n)
    BY <1>1 DEF WorkerMoves, Checkpoint, Others, Guarded, BuildTyped, PlaceTyped
<1>3. RemovalsMove
    BY NoRemovalThen DEF Checkpoint
<1>4. QED
    BY <1>2, <1>3, WorkerMovesKeep

LEMMA RowStepKeeps ==
    ASSUME SftInv, NEW n \in Tries, OpenSource(n) \/ RecordBuildManifest(n)
    PROVE  SftInv'
<1>1. BuildTyped /\ PlaceTyped
    BY SftTypes DEF SftInv
<1>2. PICK s \in {"open", "record"}, t \in {"prepare", "close"} : Step(n, s, t)
    BY DEF OpenSource, RecordBuildManifest
<1>3. /\ worker' \in [Tries -> WorkerSteps] /\ worker[n] = s
      /\ \A m \in Tries \ {n} : worker'[m] = worker[m]
    BY <1>2, TakesStep DEF WorkerSteps, Guarded
<1>4. UNCHANGED <<build, tries, cleaned, checked, dependent, sweep>> /\ Others
      /\ owned' \subseteq Tries
    BY <1>1 DEF OpenSource, RecordBuildManifest, BuildTyped
<1>5. WorkerMoves(n)
    BY <1>1, <1>3, <1>4 DEF WorkerMoves, Others, BuildTyped, PlaceTyped
<1>6. RemovalsMove
    BY <1>3, <1>4, NoRemovalThen
<1>7. QED
    BY <1>5, <1>6, WorkerMovesKeep

LEMMA DiskStepKeeps ==
    ASSUME SftInv, NEW n \in Tries,
           PrepareBuild(n) \/ WriteBuild(n) \/ CloseBuild(n) \/ RenameBuild(n)
    PROVE  SftInv'
<1>1. BuildTyped
    BY SftTypes DEF SftInv
<1>2. PICK s \in {"prepare", "write", "close", "rename"},
           t \in {"write", "record", "rename", "complete"} : Step(n, s, t)
    BY DEF PrepareBuild, WriteBuild, CloseBuild, RenameBuild, OnDisk
<1>3. PICK at \in {"stage", "final"}, content \in {"marked", "open", "closed"} :
          Put(n, at, content)
    BY DEF PrepareBuild, WriteBuild, CloseBuild, RenameBuild
<1>4. /\ worker' \in [Tries -> WorkerSteps] /\ worker[n] = s
      /\ \A m \in Tries \ {n} : worker'[m] = worker[m]
    BY <1>2, TakesStep DEF WorkerSteps, Guarded
<1>5. /\ UNCHANGED <<build, tries, owned, cleaned, dependent, sweep, importVars, itemVars>>
      /\ checked' \subseteq Tries
    BY <1>1 DEF PrepareBuild, WriteBuild, CloseBuild, RenameBuild, OnDisk, BuildTyped
<1>6. PlaceTyped' /\ \A m \in Places \ {n} : place'[m] = place[m]
    BY <1>3, PutsBuild
<1>7. WorkerMoves(n)
    BY <1>1, <1>4, <1>5, <1>6 DEF WorkerMoves, BuildTyped
<1>8. RemovalsMove
    BY <1>4, <1>5, NoRemovalThen
<1>9. QED
    BY <1>7, <1>8, WorkerMovesKeep

LEMMA ContinueCleanupKeeps ==
    ASSUME SftInv, NEW n \in Tries, ContinueCleanup(n)
    PROVE  SftInv'
<1>1. BuildTyped /\ PlaceTyped /\ sweep \in [Places -> Sweeps] /\ n \in Places /\ n # 0
    BY SftTypes, PlacesOf DEF SftInv, SweepTyped
<1>2. /\ sweep[n].step = "end" /\ UNCHANGED <<build, tries, owned, checked, dependent>> /\ Others
    BY DEF ContinueCleanup, AtSweep
<1>3. worker[n] = "sweep" /\ ~sweep[n].purge /\ sweep[n].n \in Tries /\ sweep[n].n < n
    BY <1>2 DEF SftInv, SweepsFit, CleanupFits
<1>4. CASE UNCHANGED <<worker, cleaned>>
           /\ sweep' = [sweep EXCEPT ![n].step = "look", ![n].side = "final"]
    <2>1. WorkerMoves(n)
        BY <1>1, <1>2, <1>3, <1>4 DEF WorkerMoves, Others, BuildTyped, PlaceTyped
    <2>2. /\ sweep' \in [Places -> Sweeps] /\ sweep'[0] = sweep[0]
          /\ sweep'[n].purge = sweep[n].purge /\ sweep'[n].n = sweep[n].n
          /\ \A p \in Tries \ {n} : sweep'[p] = sweep[p]
        <3> DEFINE w == [sweep[n] EXCEPT !.step = "look", !.side = "final"]
        <3>1. sweep[n] \in Sweeps
            BY <1>1
        <3>2. w \in Sweeps /\ w.n = sweep[n].n /\ w.purge = sweep[n].purge
            BY <3>1 DEF Sweeps, Sides
        <3>3. sweep' = [sweep EXCEPT ![n] = w]
            BY <1>1, <1>4, <3>1 DEF Sweeps
        <3> HIDE DEF w
        <3>4. QED
            BY <1>1, <3>2, <3>3, PlacesOf
    <2>3. RemovalsMove
        BY <1>3, <1>4, <2>2 DEF RemovalsMove, SweepTyped, CleanupFits, SftInv, SweepsFit
    <2>4. QED
        BY <2>1, <2>3, WorkerMovesKeep
<1>5. CASE /\ cleaned' = cleaned \cup {sweep[n].n}
           /\ worker' = [worker EXCEPT ![n] = "open"]
           /\ sweep' = [sweep EXCEPT ![n] = NoSweep]
    <2>1. WorkerMoves(n)
        BY <1>1, <1>2, <1>3, <1>5 DEF WorkerMoves, Others, BuildTyped, PlaceTyped, WorkerSteps
    <2>2. /\ sweep' \in [Places -> Sweeps] /\ sweep'[0] = sweep[0] /\ sweep'[n] = NoSweep
          /\ \A p \in Tries \ {n} : sweep'[p] = sweep[p] /\ worker'[p] = worker[p]
        BY <1>1, <1>5, PlacesOf DEF BuildTyped, Sweeps, Sides, NoSweep
    <2>3. RemovalsMove
        BY <2>2 DEF RemovalsMove, SweepTyped, CleanupFits, SftInv, SweepsFit, NoSweep
    <2>4. QED
        BY <2>1, <2>3, WorkerMovesKeep
<1>6. QED
    BY <1>4, <1>5 DEF ContinueCleanup
LEMMA CompleteBuildKeeps ==
    ASSUME SftInv, NEW n \in Tries, CompleteBuild(n)
    PROVE  SftInv'
<1>1. /\ build \in BuildRow /\ build.attempt \in Nat
      /\ tries \in [Tries -> TryStatus] /\ worker \in [Tries -> WorkerSteps]
    BY BuildTypes
<1>2. /\ build.status = "running" /\ build.attempt = n /\ tries[n] = "running"
      /\ bundle = "active" /\ Lies(n, "final", "closed") /\ worker[n] = "complete"
      /\ build' = [build EXCEPT !.status = "succeeded", !.live = FALSE, !.review = "pending"]
      /\ tries' = [tries EXCEPT ![n] = "succeeded"]
      /\ worker' = [worker EXCEPT ![n] = "done"]
      /\ UNCHANGED <<owned, cleaned, checked, dependent, sweep>> /\ Others
    BY DEF CompleteBuild, HoldsClaim, Claims, Step
<1>3. build' \in BuildRow /\ build'.status = "succeeded" /\ build'.attempt = n
      /\ build'.review = "pending"
    BY <1>1, <1>2 DEF BuildRow
<1>4. /\ \A m \in Tries : tries'[m] = IF m = n THEN "succeeded" ELSE tries[m]
      /\ \A m \in Tries : worker'[m] = IF m = n THEN "done" ELSE worker[m]
    BY <1>1, <1>2
<1>5. /\ build.review = "not_ready" /\ ~dependent /\ purging \ {0} = {}
      /\ 0 \notin purging /\ bundle # "purged"
      /\ \A m \in Tries : tries[m] # "succeeded"
    BY <1>2 DEF SftInv, BuildFits, ItemsFit, SourceFits
<1>6. SftTypeOK'
    <2>1. BuildTyped /\ ImportTyped /\ PlaceTyped /\ ItemsTyped /\ SweepTyped
        BY SftTypes DEF SftInv
    <2>2. tries' \in [Tries -> TryStatus] /\ worker' \in [Tries -> WorkerSteps]
        BY <1>1, <1>2 DEF TryStatus, WorkerSteps
    <2>3. BuildTyped'
        BY <1>2, <1>3, <2>1, <2>2 DEF BuildTyped
    <2>4. (ImportTyped /\ PlaceTyped /\ ItemsTyped /\ SweepTyped)'
        BY <1>2, <2>1 DEF Others, importVars, itemVars, ImportTyped, PlaceTyped, ItemsTyped, SweepTyped
    <2>5. QED
        BY <2>3, <2>4, SftTypesNext
<1>7. BuildFits'
    <2>1. \A m \in Tries : m > n => m # n
        BY <1>1, PlacesOf
    <2>2. QED
        BY <1>2, <1>3, <1>4, <1>5, <2>1 DEF SftInv, BuildFits, GivenUp
<1>8. ItemsFit' /\ SourceFits'
    <2>1. \A m \in Tries : tries[m] \in GivenUp => tries'[m] \in GivenUp
        BY <1>2, <1>4 DEF GivenUp
    <2>2. QED
        BY <2>1, <1>2, <1>5 DEF SftInv, ItemsFit, SourceFits, Others, importVars, itemVars
<1>9. SweepsFit'
    <2>1. MaintenanceFits' /\ PurgeFinds'
        BY <1>2 DEF SftInv, SweepsFit, MaintenanceFits, PurgeFinds, Others, importVars, itemVars, Lies
    <2>2. \A p \in Tries : CleanupFits(p)'
        BY <1>2, <1>4 DEF SftInv, SweepsFit, CleanupFits
    <2>3. QED
        BY <2>1, <2>2 DEF SweepsFit
<1>10. SuccessPublished'
    BY <1>2, <1>4 DEF SftInv, SuccessPublished, Others, Lies
<1>11. DatasetsStand'
    <2>1. {m \in Tries : tries'[m] = "succeeded"} = {n}
        BY <1>4, <1>5
    <2>2. QED
        BY <2>1, <1>2, <1>3, <1>5 DEF SftInv, DatasetsStand, Others, importVars, Lies
<1>12. QED
    BY <1>6, <1>7, <1>8, <1>9, <1>10, <1>11 DEF SftInv

LEMMA WorkBuildKeeps ==
    ASSUME SftInv, NEW n \in Tries, WorkBuild(n)
    PROVE  SftInv'
BY CheckpointKeeps, RowStepKeeps, DiskStepKeeps, CompleteBuildKeeps, FailBuildKeeps,
   ContinueCleanupKeeps DEF WorkBuild

(***************************************************************************)
(* Reviews, and the adapters of a dataset.                                 *)
(***************************************************************************)

LEMMA NotReserved ==
    ASSUME SftInv, ~FinalReserved
    PROVE  purging \ {0} = {}
BY SftTypes, PlacesOf DEF SftInv, ItemsTyped, FinalReserved

\* Of a build that succeeded, only the review changes, or the dependency.
LEMMA ReviewedKeeps ==
    ASSUME SftInv, UNCHANGED <<tries, owned, cleaned, worker, checked, sweep>>, Others,
           BuildTyped', build.status = "succeeded", build'.status = "succeeded",
           build'.attempt = build.attempt,
           build.review \in {"pending", "approved", "rejected", "archived"},
           build'.review \in {"approved", "rejected", "archived"},
           dependent' => build'.review \in {"approved", "archived"},
           dependent' => build.review = "approved" \/ dependent,
           build'.review = "approved" => build.review \in {"pending", "approved"},
           purging \ {0} = {} \/ (~dependent' /\ build'.review = build.review)
    PROVE  SftInv'
<1>1. SftTypeOK'
    BY SftTypes, SftTypesNext
    DEF SftInv, Others, importVars, itemVars, ImportTyped, PlaceTyped, ItemsTyped, SweepTyped
<1>2. BuildFits'
    BY DEF SftInv, BuildFits
<1>3. ItemsFit'
    BY DEF SftInv, ItemsFit, Others, importVars, itemVars
<1>4. SourceFits' /\ SuccessPublished'
    BY DEF SftInv, SourceFits, SuccessPublished, Others, importVars, itemVars
<1>5. SweepsFit'
    BY SameSweeps
<1>6. DatasetsStand'
    BY DEF SftInv, DatasetsStand, Others, importVars, Lies
<1>7. QED
    BY <1>1, <1>2, <1>3, <1>4, <1>5, <1>6 DEF SftInv

LEMMA ReviewKeeps == SftInv /\ ReviewBuild => SftInv'
<1> SUFFICES ASSUME SftInv, ReviewBuild
             PROVE  SftInv'
    OBVIOUS
<1>1. PICK to \in {"approved", "rejected", "archived"} :
          /\ build.review \in {"pending", "approved", "rejected"}
          /\ build.review \in {"approved", "rejected"} => to = "archived"
          /\ build.status = "succeeded" /\ ~FinalReserved
          /\ build' = [build EXCEPT !.review = to]
          /\ UNCHANGED <<tries, owned, cleaned, worker, checked, dependent, sweep>> /\ Others
    BY DEF ReviewBuild, ReviewFrom
<1>2. build \in BuildRow
    BY BuildTypes
<1>3. /\ build' \in BuildRow /\ build'.status = "succeeded" /\ build'.attempt = build.attempt
      /\ build'.review = to
    BY <1>1, <1>2 DEF BuildRow
<1>4. BuildTyped'
    BY <1>1, <1>3, SftTypes DEF SftInv, BuildTyped
<1>5. dependent => build.review = "approved"
    BY <1>1 DEF SftInv, BuildFits
<1>6. purging \ {0} = {}
    BY <1>1, NotReserved
<1>7. QED
    BY <1>1, <1>3, <1>4, <1>5, <1>6, ReviewedKeeps

LEMMA DependKeeps == SftInv /\ DependOnDataset => SftInv'
<1> SUFFICES ASSUME SftInv, DependOnDataset
             PROVE  SftInv'
    OBVIOUS
<1>1. UNCHANGED <<build, tries, owned, cleaned, worker, checked, sweep>> /\ Others
    BY DEF DependOnDataset
<1>2. BuildTyped'
    BY <1>1, SftTypes DEF SftInv, BuildTyped, DependOnDataset
<1>3. CASE build.review = "approved" /\ ~FinalReserved /\ dependent' = TRUE
    <2>1. build.status = "succeeded" /\ purging \ {0} = {}
        BY <1>3, NotReserved DEF SftInv, BuildFits
    <2>2. QED
        BY <2>1, <1>1, <1>2, <1>3, ReviewedKeeps
<1>4. CASE dependent /\ dependent' = FALSE
    <2>1. build.status = "succeeded" /\ build.review \in {"approved", "archived"}
        BY <1>4 DEF SftInv, BuildFits
    <2>2. QED
        BY <2>1, <1>1, <1>2, <1>4, ReviewedKeeps
<1>5. QED
    BY <1>3, <1>4 DEF DependOnDataset
(***************************************************************************)
(* Steps of a removal.                                                     *)
(***************************************************************************)

\* The directory a removal is about: broken where it lies, or gone.
Removes(p) ==
    LET n == sweep[p].n
    IN  /\ PlaceTyped' /\ \A m \in Places \ {n} : place'[m] = place[m]
        /\ place'[n].at \in {place[n].at, "none"}

LEMMA SweepSet ==
    ASSUME sweep \in [Places -> Sweeps], NEW p \in Places, NEW w \in Sweeps,
           sweep' = [sweep EXCEPT ![p] = w]
    PROVE  /\ sweep' \in [Places -> Sweeps] /\ sweep'[p] = w
           /\ \A q \in Places \ {p} : sweep'[q] = sweep[q]
OBVIOUS

LEMMA RemovingKeeps ==
    ASSUME SftInv, NEW p \in Places, sweep[p].step # "none", Removes(p), checked' \subseteq Tries,
           UNCHANGED <<importVars, build, tries, owned, cleaned, worker, dependent, itemVars>>,
           NEW step \in {"empty", "rmdir", "end"}, NEW ok \in BOOLEAN,
           sweep' = [sweep EXCEPT ![p].step = step, ![p].ok = ok],
           p = 0 => PurgeFinds'
    PROVE  SftInv'
<1> DEFINE n == sweep[p].n
<1>1. n \in Places /\ Disposable(n) /\ (p # 0 => n \in Tries /\ n < build.attempt)
    BY SweptIsDisposable
<1>2. /\ BuildTyped /\ ImportTyped /\ PlaceTyped /\ ItemsTyped /\ SweepTyped
      /\ sweep \in [Places -> Sweeps]
    BY SftTypes DEF SftInv, SweepTyped
<1>3. /\ \A m \in Places \ {n} : place'[m] = place[m]
      /\ place'[n].at \in {place[n].at, "none"} /\ PlaceTyped'
    BY DEF Removes
<1>4. /\ sweep' \in [Places -> Sweeps]
      /\ sweep'[p].n = n /\ sweep'[p].side = sweep[p].side /\ sweep'[p].purge = sweep[p].purge
      /\ sweep'[p].step = step /\ sweep'[p].ok = ok
      /\ \A q \in Places \ {p} : sweep'[q] = sweep[q]
    <2> DEFINE w == [sweep[p] EXCEPT !.step = step, !.ok = ok]
    <2>1. sweep[p] \in Sweeps
        BY <1>2
    <2>2. /\ w \in Sweeps /\ w.step = step /\ w.ok = ok
          /\ w.n = sweep[p].n /\ w.side = sweep[p].side /\ w.purge = sweep[p].purge
        BY <2>1 DEF Sweeps
    <2>3. sweep' = [sweep EXCEPT ![p] = w]
        BY <1>2, <2>1 DEF Sweeps
    <2> HIDE DEF w
    <2>4. sweep \in [Places -> Sweeps]
        BY <1>2
    <2>5. /\ sweep' \in [Places -> Sweeps] /\ sweep'[p] = w
          /\ \A q \in Places \ {p} : sweep'[q] = sweep[q]
        BY <2>2, <2>3, <2>4, SweepSet
    <2>6. QED
        BY <2>2, <2>5
<1> HIDE DEF n
<1>5. SftTypeOK'
    <2>1. (BuildTyped /\ ImportTyped /\ ItemsTyped)'
        BY <1>2 DEF BuildTyped, ImportTyped, ItemsTyped, importVars, itemVars
    <2>2. QED
        BY <2>1, <1>3, <1>4, SftTypesNext DEF SweepTyped
<1>6. BuildFits' /\ ItemsFit' /\ SourceFits'
    BY DEF SftInv, BuildFits, ItemsFit, SourceFits, importVars, itemVars
<1>7. SuccessPublished'
    BY <1>3, PlacesOf DEF SftInv, SuccessPublished
<1>8. ASSUME build.review \in {"pending", "approved", "purged"} \/ dependent
      PROVE  /\ build.attempt \in Tries
             /\ \/ build.review = "purged"
                \/ n # build.attempt /\ place'[build.attempt] = place[build.attempt]
    <2>1. build.status = "succeeded" /\ build.attempt \in Tries /\ tries[build.attempt] = "succeeded"
        BY <1>8, <1>2 DEF SftInv, BuildFits, BuildTyped
    <2>2. CASE build.review = "purged"
        BY <2>1, <2>2
    <2>3. CASE build.review # "purged"
        <3>1. n \notin purging \/ n = 0
            BY <1>8, <2>3 DEF SftInv, ItemsFit
        <3>2. n # build.attempt
            <4>1. ~(build.attempt < build.attempt)
                BY BuildTypes
            <4>2. QED
                BY <4>1, <3>1, <2>1, <1>1, PlacesOf DEF Disposable, GivenUp
        <3>3. QED
            BY <2>1, <3>2, <1>3, PlacesOf
    <2>4. QED
        BY <2>2, <2>3
<1>9. bundle = "active" /\ "commit" \notin raced => n # 0
    BY <1>1, PlacesOf DEF Disposable, SftInv, SourceFits, ItemsFit, Unfinished
<1>10. DatasetsStand'
    <2>1. build.review \in {"pending", "approved"} \/ dependent =>
              /\ {m \in Tries : tries[m] = "succeeded"} = {build.attempt}
              /\ Lies(build.attempt, "final", "closed")' /\ bundle # "purged"
        <3>1. dependent => build.review # "purged"
            BY DEF SftInv, BuildFits
        <3>2. QED
            BY <1>8, <3>1 DEF SftInv, DatasetsStand, Lies
    <2>2. bundle = "active" /\ "commit" \notin raced => Lies(0, "final", "closed")'
        BY <1>3, <1>9, PlacesOf DEF SftInv, DatasetsStand, Lies
    <2>3. build.review = "purged" => place'[build.attempt].at = "none"
        BY <1>3, <1>8, PlacesOf DEF SftInv, DatasetsStand
    <2>4. bundle = "purged" /\ "rename" \notin raced => place'[0].at # "final"
        BY <1>3, PlacesOf DEF SftInv, DatasetsStand
    <2>5. QED
        BY <2>1, <2>2, <2>3, <2>4 DEF DatasetsStand, importVars
<1>11. MaintenanceFits'
    <2>1. sweep'[0].n = sweep[0].n /\ sweep'[0].side = sweep[0].side
          /\ sweep'[0].purge = sweep[0].purge
          /\ (sweep'[0].step # "none" => sweep[0].step # "none")
        BY <1>4, PlacesOf
    <2>2. QED
        BY <2>1 DEF SftInv, SweepsFit, MaintenanceFits, itemVars
<1>12. \A q \in Tries : CleanupFits(q)'
    <2>1. ASSUME NEW q \in Tries
          PROVE  CleanupFits(q)'
        <3>1. sweep'[q].n = sweep[q].n /\ sweep'[q].purge = sweep[q].purge
              /\ (sweep'[q].step # "none" => sweep[q].step # "none")
            BY <1>4, PlacesOf
        <3>2. QED
            BY <3>1 DEF SftInv, SweepsFit, CleanupFits
    <2>2. QED
        BY <2>1
<1>13. PurgeFinds'
    <2>1. CASE p = 0
        BY <2>1
    <2>2. CASE p # 0
        <3>1. sweep'[0] = sweep[0]
            BY <1>4, <2>2, PlacesOf
        <3>2. ASSUME sweep[0].purge, sweep[0].step # "none"
              PROVE  place'[sweep[0].n] = place[sweep[0].n]
            <4>1. sweep[0].n \in purging /\ sweep[0].n \in Places
                BY <3>2, <1>2 DEF SftInv, SweepsFit, MaintenanceFits, ItemsTyped
            <4>2. sweep[0].n = 0 \/ sweep[0].n = build.attempt
                BY <4>1 DEF SftInv, ItemsFit
            <4>3. n # 0 /\ n # build.attempt
                BY <1>1, <2>2, PlacesOf, BuildTypes
            <4>4. QED
                BY <4>1, <4>2, <4>3, <1>3
        <3>3. QED
            BY <3>1, <3>2 DEF SftInv, SweepsFit, PurgeFinds, Lies, importVars
    <2>3. QED
        BY <2>1, <2>2
<1>14. QED
    BY <1>5, <1>6, <1>7, <1>10, <1>11, <1>12, <1>13 DEF SftInv, SweepsFit

\* What the command finds at a final it purges.
LEMMA AtPurge ==
    ASSUME SftInv, sweep[0].step # "none", sweep[0].purge
    PROVE  /\ sweep[0].side = "final" /\ sweep[0].n \in Kin(sweep[0].n)
           /\ PurgeFinds
<1>1. sweep[0] \in Sweeps /\ sweep[0].n \in Places
    BY PlacesOf, BuildTypes DEF Sweeps
<1>2. QED
    BY <1>1, PlacesOf DEF SftInv, SweepsFit, MaintenanceFits, Kin

LEMMA SweepStep ==
    ASSUME SftInv, NEW p \in Places
    PROVE  /\ sweep[p] \in Sweeps /\ sweep[p].ok \in BOOLEAN /\ sweep \in [Places -> Sweeps]
           /\ sweep[p].n \in Places /\ PlaceTyped
           /\ \A s : GoesOn(p, s) =>
                sweep' = [sweep EXCEPT ![p].step = s, ![p].ok = sweep[p].ok]
BY SftTypes DEF SftInv, SweepTyped, Sweeps, GoesOn
LEMMA LookKeeps ==
    ASSUME SftInv, NEW p \in Places, Look(p),
           UNCHANGED <<importVars, build, tries, owned, cleaned, worker, dependent, itemVars>>
    PROVE  SftInv'
<1> DEFINE n == sweep[p].n
<1>1. /\ sweep[p] \in Sweeps /\ sweep[p].ok \in BOOLEAN /\ sweep \in [Places -> Sweeps]
      /\ n \in Places /\ PlaceTyped
      /\ \A s : GoesOn(p, s) => sweep' = [sweep EXCEPT ![p].step = s, ![p].ok = sweep[p].ok]
    BY SweepStep
<1>2. sweep[p].step = "look" /\ place' = place /\ checked' = checked \ {p}
    BY DEF Look, AtSweep
<1>3. \/ /\ GoesOn(p, "empty")
         /\ sweep[p].side = "final" => OwnsFinal(n)
      \/ \E ok \in BOOLEAN : Ends(p, ok) /\ (sweep[p].side = "final" /\ ok => Settled(n) = {})
    BY DEF Look
<1>4. PICK step \in {"empty", "end"}, ok \in BOOLEAN :
          /\ sweep' = [sweep EXCEPT ![p].step = step, ![p].ok = ok]
          /\ step = "empty" /\ sweep[p].side = "final" => OwnsFinal(n)
          /\ step = "end" /\ ok /\ sweep[p].side = "final" => Settled(n) = {}
    BY <1>1, <1>3 DEF Ends
<1>5. Removes(p)
    BY <1>1, <1>2 DEF Removes, PlaceTyped
<1>6. checked' \subseteq Tries
    BY <1>2, SftTypes DEF SftInv, BuildTyped
<1>7. ASSUME p = 0
      PROVE  PurgeFinds'
    <2>1. sweep'[0].step = step /\ sweep'[0].ok = ok /\ sweep'[0].n = n
          /\ sweep'[0].purge = sweep[0].purge
        BY <1>1, <1>4, <1>7 DEF Sweeps
    <2>2. ASSUME sweep[0].purge
          PROVE  sweep[0].side = "final" /\ n \in Kin(n)
        BY <2>2, <1>2, <1>7, AtPurge
    <2>3. Settled(n) = {} /\ n \in Kin(n) => place[n].at # "final"
        BY DEF Settled
    <2>4. QED
        BY <2>1, <2>2, <2>3, <1>2, <1>4, <1>7 DEF PurgeFinds, OwnsFinal, Lies
<1>8. QED
    BY <1>2, <1>4, <1>5, <1>6, <1>7, RemovingKeeps

LEMMA EmptyKeeps ==
    ASSUME SftInv, NEW p \in Places, Empty(p),
           UNCHANGED <<importVars, build, tries, owned, cleaned, worker, dependent, itemVars>>
    PROVE  SftInv'
<1> DEFINE n == sweep[p].n
<1>1. /\ sweep[p] \in Sweeps /\ sweep[p].ok \in BOOLEAN /\ sweep \in [Places -> Sweeps]
      /\ n \in Places /\ PlaceTyped
      /\ \A s : GoesOn(p, s) => sweep' = [sweep EXCEPT ![p].step = s, ![p].ok = sweep[p].ok]
    BY SweepStep
<1>2. sweep[p].step = "empty" /\ checked' = checked
    BY DEF Empty, AtSweep
<1>3. PICK step \in {"rmdir", "end"}, ok \in BOOLEAN :
          /\ sweep' = [sweep EXCEPT ![p].step = step, ![p].ok = ok]
          /\ \/ step = "rmdir" /\ place' = [place EXCEPT ![n].content = "broken"]
             \/ step = "end" /\ place[n].content \in {"none", "broken"} /\ place' = place
    BY <1>1 DEF Empty, Ends
<1>4. /\ PlaceTyped' /\ \A m \in Places \ {n} : place'[m] = place[m]
      /\ place'[n].at = place[n].at
    <2> DEFINE r == [place[n] EXCEPT !.content = "broken"]
    <2>1. place \in [Places -> PlaceStates] /\ place[n] \in PlaceStates
        BY <1>1 DEF PlaceTyped
    <2>2. r \in PlaceStates /\ r.at = place[n].at
        BY <2>1 DEF PlaceStates
    <2>3. place' = [place EXCEPT ![n] = r] \/ place' = place
        BY <1>3, <2>1
    <2> HIDE DEF r
    <2>4. QED
        BY <1>1, <2>1, <2>2, <2>3 DEF PlaceTyped
<1>5. Removes(p)
    BY <1>4 DEF Removes
<1>6. checked' \subseteq Tries
    BY <1>2, SftTypes DEF SftInv, BuildTyped
<1>7. ASSUME p = 0
      PROVE  PurgeFinds'
    <2>1. sweep'[0].step = step /\ sweep'[0].ok = ok /\ sweep'[0].n = n
          /\ sweep'[0].purge = sweep[0].purge
        BY <1>1, <1>3, <1>7 DEF Sweeps
    <2>2. ASSUME sweep[0].purge
          PROVE  place[n] = [at |-> "final", content |-> "closed"]
        BY <2>2, <1>2, <1>7, AtPurge DEF PurgeFinds, Lies
    <2>3. QED
        BY <2>1, <2>2, <1>3, <1>4, <1>7 DEF PurgeFinds
<1>8. QED
    BY <1>2, <1>3, <1>5, <1>6, <1>7, RemovingKeeps

LEMMA RemoveDirectoryKeeps ==
    ASSUME SftInv, NEW p \in Places, RemoveDirectoryOf(p),
           UNCHANGED <<importVars, build, tries, owned, cleaned, worker, dependent, itemVars>>
    PROVE  SftInv'
<1> DEFINE n == sweep[p].n
<1>1. /\ sweep[p] \in Sweeps /\ sweep[p].ok \in BOOLEAN /\ sweep \in [Places -> Sweeps]
      /\ n \in Places /\ PlaceTyped
    BY SweepStep
<1>2. sweep[p].step = "rmdir" /\ checked' = checked
    BY DEF RemoveDirectoryOf, AtSweep
<1>3. PICK ok \in BOOLEAN :
          /\ sweep' = [sweep EXCEPT ![p].step = "end", ![p].ok = ok]
          /\ \/ place[n].at = sweep[p].side /\ Put(n, "none", "none")
             \/ place' = place /\ (place[n].at # sweep[p].side \/ sweep[p].side = "stage")
    BY <1>1 DEF RemoveDirectoryOf, Ends
<1>4. /\ PlaceTyped' /\ \A m \in Places \ {n} : place'[m] = place[m]
      /\ \/ place'[n].at = "none"
         \/ place'[n] = place[n] /\ (place[n].at # sweep[p].side \/ sweep[p].side = "stage")
    BY <1>1, <1>3 DEF PlaceTyped, PlaceStates, Put
<1>5. Removes(p)
    BY <1>4 DEF Removes
<1>6. checked' \subseteq Tries
    BY <1>2, SftTypes DEF SftInv, BuildTyped
<1>7. ASSUME p = 0
      PROVE  PurgeFinds'
    <2>1. sweep'[0].step = "end" /\ sweep'[0].ok = ok /\ sweep'[0].n = n
          /\ sweep'[0].purge = sweep[0].purge
        BY <1>1, <1>3, <1>7 DEF Sweeps
    <2>2. ASSUME sweep[0].purge
          PROVE  sweep[0].side = "final" /\ place[n].at = "final"
        BY <2>2, <1>2, <1>7, AtPurge DEF PurgeFinds
    <2>3. QED
        BY <2>1, <2>2, <1>4, <1>7 DEF PurgeFinds
<1>8. QED
    BY <1>2, <1>3, <1>5, <1>6, <1>7, RemovingKeeps

LEMMA SweepKeeps ==
    ASSUME SftInv, NEW p \in Places, Sweep(p)
    PROVE  SftInv'
BY LookKeeps, EmptyKeeps, RemoveDirectoryKeeps DEF Sweep
(***************************************************************************)
(* Steps of the maintenance command.                                       *)
(***************************************************************************)

\* It gets items while it is at no removal.
LEMMA RegisterKeeps == SftInv /\ (RegisterReconcile \/ RegisterPurge) => SftInv'
<1> SUFFICES ASSUME SftInv, RegisterReconcile \/ RegisterPurge
             PROVE  SftInv'
    OBVIOUS
<1>1. Idle /\ sweep[0].step = "none"
    BY DEF RegisterReconcile, RegisterPurge, NoCommandRuns
<1>2. BuildTyped /\ ImportTyped /\ PlaceTyped /\ ItemsTyped /\ SweepTyped
    BY SftTypes DEF SftInv
<1>3. (BuildTyped /\ ImportTyped /\ PlaceTyped /\ SweepTyped)'
    BY <1>1, <1>2 DEF Idle, importVars, buildVars, BuildTyped, ImportTyped, PlaceTyped, SweepTyped
<1>4. BuildFits' /\ SuccessPublished' /\ DatasetsStand'
    BY <1>1 DEF SftInv, Idle, importVars, buildVars, BuildFits, SuccessPublished, DatasetsStand, Lies
<1>5. SweepsFit'
    BY <1>1 DEF SftInv, Idle, importVars, buildVars, SweepsFit, MaintenanceFits, PurgeFinds, CleanupFits
<1>6. ItemsTyped' /\ ItemsFit' /\ SourceFits'
    <2>1. CASE RegisterReconcile
        <3>1. /\ UNCHANGED purging
              /\ reconciling' = [n \in Places |-> [s \in Sides |->
                    IF Neglected(n) /\ s \in Wanted(n) THEN "registered" ELSE reconciling[n][s]]]
            BY <2>1 DEF RegisterReconcile
        <3>2. \A n \in Places, s \in Sides :
                  /\ reconciling'[n][s] \in {"registered", reconciling[n][s]}
                  /\ reconciling'[n][s] = "registered" =>
                        Neglected(n) \/ reconciling[n][s] = "registered"
            BY <3>1
        <3>3. ItemsTyped'
            BY <1>2, <3>1, <3>2 DEF ItemsTyped
        <3>4. \A n \in Tries, s \in Sides : reconciling'[n][s] = "registered" => tries[n] \in GivenUp
            BY <3>2, PlacesOf DEF Neglected, SftInv, ItemsFit
        <3>5. \A s \in Sides : reconciling'[0][s] = "registered" =>
                  importing \in Unfinished \/ "commit" \in raced
            BY <3>2, PlacesOf DEF Neglected, SftInv, SourceFits
        <3>6. QED
            BY <1>1, <3>1, <3>3, <3>4, <3>5
            DEF Idle, importVars, buildVars, SftInv, ItemsFit, SourceFits
    <2>2. CASE RegisterPurge
        <3>1. UNCHANGED reconciling /\ purging' = {n \in Places : Unwanted(n)}
            BY <2>2 DEF RegisterPurge
        <3>2. \A n \in purging' \ {0} :
                  /\ build.status = "succeeded" /\ n = build.attempt
                  /\ build.review \in {"rejected", "archived"} /\ ~dependent
            BY <3>1, PlacesOf DEF Unwanted
        <3>3. 0 \in purging' => bundle = "archived"
                                /\ (build.status = "none" \/ build.review = "purged")
            BY <3>1 DEF Unwanted
        <3>4. QED
            BY <1>1, <1>2, <3>1, <3>2, <3>3
            DEF Idle, importVars, buildVars, SftInv, ItemsTyped, ItemsFit, SourceFits
    <2>3. QED
        BY <2>1, <2>2
<1>7. QED
    BY <1>3, <1>4, <1>5, <1>6, SftTypesNext DEF SftInv

\* Its removals begin, pause and end without a look at a directory.
LEMMA CommandStepKeeps ==
    ASSUME SftInv, UNCHANGED <<importVars, buildVars, place, itemVars>>,
           NEW w \in Sweeps, sweep' = [sweep EXCEPT ![0] = w],
           w.step \in {"none", "authorize", "look"} \/ (w.step = "end" /\ ~w.ok),
           w.step # "none" =>
               IF w.purge THEN w.side = "final" /\ w.n \in purging
                          ELSE reconciling[w.n][w.side] = "registered"
    PROVE  SftInv'
<1>1. BuildTyped /\ ImportTyped /\ PlaceTyped /\ ItemsTyped /\ SweepTyped
    BY SftTypes DEF SftInv
<1>2. sweep' \in [Places -> Sweeps] /\ sweep'[0] = w /\ \A p \in Tries : sweep'[p] = sweep[p]
    BY <1>1, PlacesOf DEF SweepTyped
<1>3. SftTypeOK'
    BY <1>1, <1>2, SftTypesNext
    DEF importVars, buildVars, itemVars, BuildTyped, ImportTyped, PlaceTyped, ItemsTyped, SweepTyped
<1>4. BuildFits' /\ ItemsFit' /\ SourceFits' /\ SuccessPublished' /\ DatasetsStand'
    BY DEF SftInv, importVars, buildVars, itemVars,
           BuildFits, ItemsFit, SourceFits, SuccessPublished, DatasetsStand, Lies
<1>5. MaintenanceFits' /\ PurgeFinds'
    BY <1>2 DEF MaintenanceFits, PurgeFinds, itemVars
<1>6. \A p \in Tries : CleanupFits(p)'
    BY <1>2 DEF SftInv, SweepsFit, CleanupFits, buildVars
<1>7. QED
    BY <1>3, <1>4, <1>5, <1>6 DEF SftInv, SweepsFit

LEMMA NoSweepTyped == NoSweep \in Sweeps /\ NoSweep.step = "none" /\ ~NoSweep.purge
BY PlacesOf DEF NoSweep, Sweeps, Sides

LEMMA StartKeeps ==
    ASSUME SftInv, NEW n \in Places, NEW side \in Sides, NEW purge \in BOOLEAN,
           StartSweep(n, side, purge)
    PROVE  SftInv'
<1> DEFINE w == [NoSweep EXCEPT !.step = IF side = "final" THEN "authorize" ELSE "look",
                                !.n = n, !.side = side, !.purge = purge]
<1>1. /\ w \in Sweeps /\ w.step \in {"authorize", "look"}
      /\ w.n = n /\ w.side = side /\ w.purge = purge
    BY DEF NoSweep, Sweeps
<1>2. /\ IF purge THEN side = "final" /\ n \in purging ELSE reconciling[n][side] = "registered"
      /\ sweep' = [sweep EXCEPT ![0] = w]
      /\ UNCHANGED <<importVars, buildVars, place, itemVars>>
    BY DEF StartSweep
<1> HIDE DEF w
<1>3. QED
    BY <1>1, <1>2, CommandStepKeeps

LEMMA AuthorizeKeeps == SftInv /\ AuthorizeDeletion => SftInv'
<1> SUFFICES ASSUME SftInv, AuthorizeDeletion
             PROVE  SftInv'
    OBVIOUS
<1>1. /\ sweep[0] \in Sweeps /\ sweep[0].ok \in BOOLEAN /\ sweep \in [Places -> Sweeps]
      /\ \A s : GoesOn(0, s) => sweep' = [sweep EXCEPT ![0].step = s, ![0].ok = sweep[0].ok]
    BY SweepStep, PlacesOf
<1>2. /\ sweep[0].step = "authorize" /\ (GoesOn(0, "look") \/ Ends(0, FALSE))
      /\ UNCHANGED <<importVars, buildVars, place, itemVars>>
    BY DEF AuthorizeDeletion, AtSweep
<1>3. PICK step \in {"look", "end"}, ok \in BOOLEAN :
          /\ sweep' = [sweep EXCEPT ![0].step = step, ![0].ok = ok]
          /\ step = "end" => ~ok
    BY <1>1, <1>2 DEF Ends
<1> DEFINE w == [sweep[0] EXCEPT !.step = step, !.ok = ok]
<1>4. /\ w \in Sweeps /\ w.step = step /\ w.ok = ok
      /\ w.n = sweep[0].n /\ w.side = sweep[0].side /\ w.purge = sweep[0].purge
    BY <1>1 DEF Sweeps
<1>5. sweep' = [sweep EXCEPT ![0] = w]
    BY <1>1, <1>3 DEF Sweeps
<1> HIDE DEF w
<1>6. IF w.purge THEN w.side = "final" /\ w.n \in purging
                 ELSE reconciling[w.n][w.side] = "registered"
    BY <1>2, <1>4 DEF AuthorizeDeletion, AtSweep, SftInv, SweepsFit, MaintenanceFits
<1>7. w.step \in {"none", "authorize", "look"} \/ (w.step = "end" /\ ~w.ok)
    BY <1>3, <1>4
<1>8. UNCHANGED <<importVars, buildVars, place, itemVars>>
    BY DEF AuthorizeDeletion
<1>9. QED
    BY <1>4, <1>5, <1>6, <1>7, <1>8, CommandStepKeeps

LEMMA StopKeeps == SftInv /\ StopMaintenance => SftInv'
<1> SUFFICES ASSUME SftInv, StopMaintenance
             PROVE  SftInv'
    OBVIOUS
<1>1. /\ sweep' = [sweep EXCEPT ![0] = NoSweep]
      /\ UNCHANGED <<importVars, buildVars, place, itemVars>>
    BY DEF StopMaintenance
<1>2. QED
    BY <1>1, NoSweepTyped, CommandStepKeeps
LEMMA EndPurgeKeeps == SftInv /\ EndPurgeItem => SftInv'
<1> SUFFICES ASSUME SftInv, EndPurgeItem
             PROVE  SftInv'
    OBVIOUS
<1> DEFINE n == sweep[0].n
<1>1. /\ sweep[0].step = "end" /\ sweep[0].purge
      /\ purging' = purging \ {n} /\ sweep' = [sweep EXCEPT ![0] = NoSweep]
      /\ UNCHANGED <<importing, importer, raced, tries, owned, cleaned, worker, checked,
                     dependent, place, reconciling>>
    BY DEF EndPurgeItem, AtSweep
<1>2. \/ bundle' = bundle /\ build' = build
      \/ /\ sweep[0].ok /\ ~dependent /\ n = 0
         /\ bundle = "archived" /\ bundle' = "purged" /\ build' = build
      \/ /\ sweep[0].ok /\ ~dependent /\ n # 0
         /\ build.status = "succeeded" /\ build.attempt = n
         /\ build.review \in {"rejected", "archived"}
         /\ build' = [build EXCEPT !.review = "purged"] /\ bundle' = bundle
    BY DEF EndPurgeItem
<1>3. BuildTyped /\ ImportTyped /\ PlaceTyped /\ ItemsTyped /\ SweepTyped
    BY SftTypes DEF SftInv
<1>4. n \in purging /\ n \in Places
      /\ (sweep[0].ok => place[n].at # "final" \/ (n = 0 /\ "rename" \in raced))
    BY <1>1, <1>3 DEF SftInv, SweepsFit, MaintenanceFits, PurgeFinds, ItemsTyped
<1>5. sweep' \in [Places -> Sweeps] /\ sweep'[0] = NoSweep /\ \A p \in Tries : sweep'[p] = sweep[p]
    BY <1>1, <1>3, NoSweepTyped, PlacesOf DEF SweepTyped
<1> HIDE DEF n
<1>6. SweepsFit'
    <2>1. MaintenanceFits' /\ PurgeFinds'
        BY <1>5, NoSweepTyped DEF MaintenanceFits, PurgeFinds
    <2>2. \A p \in Tries : CleanupFits(p)'
        BY <1>1, <1>5 DEF SftInv, SweepsFit, CleanupFits
    <2>3. QED
        BY <2>1, <2>2 DEF SweepsFit
<1>7. SuccessPublished'
    BY <1>1 DEF SftInv, SuccessPublished
<1>8. (PlaceTyped /\ ItemsTyped /\ SweepTyped)'
    BY <1>1, <1>3, <1>5 DEF PlaceTyped, ItemsTyped, SweepTyped
<1>9. CASE bundle' = bundle /\ build' = build
    <2>1. (BuildTyped /\ ImportTyped)'
        BY <1>1, <1>3, <1>9 DEF BuildTyped, ImportTyped
    <2>2. BuildFits' /\ ItemsFit' /\ SourceFits' /\ DatasetsStand'
        BY <1>1, <1>9 DEF SftInv, BuildFits, ItemsFit, SourceFits, DatasetsStand, Lies
    <2>3. QED
        BY <2>1, <2>2, <1>6, <1>7, <1>8, SftTypesNext DEF SftInv
<1>10. CASE /\ sweep[0].ok /\ ~dependent /\ n = 0
            /\ bundle = "archived" /\ bundle' = "purged" /\ build' = build
    <2>1. (BuildTyped /\ ImportTyped)'
        BY <1>1, <1>3, <1>10 DEF BuildTyped, ImportTyped
    <2>2. build.status = "none" \/ build.review = "purged"
        BY <1>4, <1>10 DEF SftInv, SourceFits
    <2>3. BuildFits' /\ ItemsFit' /\ SourceFits'
        BY <2>2, <1>1, <1>10 DEF SftInv, BuildFits, ItemsFit, SourceFits
    <2>4. build.review \notin {"pending", "approved"}
        BY <2>2 DEF SftInv, BuildFits
    <2>5. DatasetsStand'
        BY <2>4, <1>1, <1>4, <1>10 DEF SftInv, DatasetsStand, Lies
    <2>6. QED
        BY <2>1, <2>3, <2>5, <1>6, <1>7, <1>8, SftTypesNext DEF SftInv
<1>11. CASE /\ sweep[0].ok /\ ~dependent /\ n # 0
            /\ build.status = "succeeded" /\ build.attempt = n
            /\ build.review \in {"rejected", "archived"}
            /\ build' = [build EXCEPT !.review = "purged"] /\ bundle' = bundle
    <2>1. /\ build' \in BuildRow /\ build'.status = "succeeded" /\ build'.attempt = n
          /\ build'.review = "purged"
        BY <1>3, <1>11 DEF BuildTyped, BuildRow
    <2>2. (BuildTyped /\ ImportTyped)'
        BY <2>1, <1>1, <1>3, <1>11 DEF BuildTyped, ImportTyped
    <2>3. BuildFits'
        BY <2>1, <1>1, <1>11 DEF SftInv, BuildFits
    <2>4. ItemsFit' /\ SourceFits'
        BY <2>1, <1>1, <1>11 DEF SftInv, ItemsFit, SourceFits
    <2>5. place[n].at = "none"
        <3>1. n \in Tries /\ tries[n] = "succeeded"
            BY <1>4, <1>11, PlacesOf DEF SftInv, BuildFits
        <3>2. place[n].at \in {"none", "stage", "final"}
            BY <1>3, <1>4 DEF PlaceTyped, PlaceStates, Sides
        <3>3. QED
            BY <3>1, <3>2, <1>4, <1>11 DEF SftInv, SuccessPublished
    <2>6. DatasetsStand'
        BY <2>1, <2>5, <1>1, <1>11 DEF SftInv, DatasetsStand, Lies
    <2>7. QED
        BY <2>2, <2>3, <2>4, <2>6, <1>6, <1>7, <1>8, SftTypesNext DEF SftInv
<1>12. QED
    BY <1>2, <1>9, <1>10, <1>11

LEMMA EndReconcileKeeps == SftInv /\ EndReconcileItem => SftInv'
<1> SUFFICES ASSUME SftInv, EndReconcileItem
             PROVE  SftInv'
    OBVIOUS
<1> DEFINE n == sweep[0].n
           items == [reconciling[n] EXCEPT ![sweep[0].side] =
                        IF sweep[0].ok THEN "completed" ELSE "none"]
           whole == \A s \in Wanted(n) : items[s] = "completed"
           left == IF \E s \in Sides : items[s] = "registered" THEN items ELSE NoItems
<1>1. /\ sweep[0].step = "end" /\ ~sweep[0].purge
      /\ reconciling' = [reconciling EXCEPT ![n] = left]
      /\ importing' = IF whole /\ n = 0 /\ importing \in Unfinished
                      THEN "failed" ELSE importing
      /\ cleaned' = IF whole /\ n # 0 THEN cleaned \cup {n} ELSE cleaned
      /\ sweep' = [sweep EXCEPT ![0] = NoSweep]
      /\ UNCHANGED <<bundle, importer, raced, build, tries, owned, worker, checked,
                     dependent, place, purging>>
    BY DEF EndReconcileItem, AtSweep
<1>2. BuildTyped /\ ImportTyped /\ PlaceTyped /\ ItemsTyped /\ SweepTyped
    BY SftTypes DEF SftInv
<1>3. n \in Places /\ sweep[0].side \in Sides /\ sweep[0].ok \in BOOLEAN
    BY <1>2, PlacesOf DEF SweepTyped, Sweeps
<1>4. /\ left \in [Sides -> {"none", "registered", "completed"}]
      /\ \A s \in Sides : left[s] = "registered" => reconciling[n][s] = "registered"
    BY <1>2, <1>3 DEF ItemsTyped, NoItems
<1>5. n = 0 /\ whole => \A s \in Sides : left[s] # "registered"
    BY <1>3 DEF Wanted, NoItems
<1> HIDE DEF n, left, whole
<1>6. \A m \in Places, s \in Sides :
          reconciling'[m][s] = "registered" => reconciling[m][s] = "registered"
    BY <1>1, <1>2, <1>3, <1>4 DEF ItemsTyped
<1>7. sweep' \in [Places -> Sweeps] /\ sweep'[0] = NoSweep /\ \A p \in Tries : sweep'[p] = sweep[p]
    BY <1>1, <1>2, NoSweepTyped, PlacesOf DEF SweepTyped
<1>8. SftTypeOK'
    <2>1. BuildTyped'
        BY <1>1, <1>2, <1>3, PlacesOf DEF BuildTyped
    <2>2. ImportTyped'
        BY <1>1, <1>2 DEF ImportTyped
    <2>3. ItemsTyped'
        BY <1>1, <1>2, <1>4 DEF ItemsTyped
    <2>4. PlaceTyped' /\ SweepTyped'
        BY <1>1, <1>2, <1>7 DEF PlaceTyped, SweepTyped
    <2>5. QED
        BY <2>1, <2>2, <2>3, <2>4, SftTypesNext
<1>9. BuildFits' /\ SuccessPublished' /\ DatasetsStand'
    BY <1>1 DEF SftInv, BuildFits, SuccessPublished, DatasetsStand, Lies
<1>10. ItemsFit'
    BY <1>1, <1>6, PlacesOf DEF SftInv, ItemsFit
<1>11. SourceFits'
    <2>1. bundle' # "none" => importing' = "committed"
        BY <1>1 DEF SftInv, SourceFits, Unfinished
    <2>2. ASSUME NEW s \in Sides, reconciling'[0][s] = "registered"
          PROVE  importing' \in Unfinished \/ "commit" \in raced
        <3>1. importing \in Unfinished \/ "commit" \in raced
            BY <2>2, <1>6, PlacesOf DEF SftInv, SourceFits
        <3>2. CASE whole /\ n = 0
            <4>1. reconciling'[0] = left
                BY <1>1, <1>2, <1>3, <3>2 DEF ItemsTyped
            <4>2. QED
                BY <4>1, <1>5, <2>2, <3>2
        <3>3. CASE ~(whole /\ n = 0)
            BY <3>1, <3>3, <1>1
        <3>4. QED
            BY <3>2, <3>3
    <2>3. QED
        BY <2>1, <2>2, <1>1 DEF SftInv, SourceFits
<1>12. SweepsFit'
    <2>1. MaintenanceFits' /\ PurgeFinds'
        BY <1>7, NoSweepTyped DEF MaintenanceFits, PurgeFinds
    <2>2. \A p \in Tries : CleanupFits(p)'
        BY <1>1, <1>7 DEF SftInv, SweepsFit, CleanupFits
    <2>3. QED
        BY <2>1, <2>2 DEF SweepsFit
<1>13. QED
    BY <1>8, <1>9, <1>10, <1>11, <1>12 DEF SftInv

(***************************************************************************)
(* The invariant of the datasets.                                          *)
(***************************************************************************)

LEMMA InitSft == SftInit => SftInv
<1> SUFFICES ASSUME SftInit
             PROVE  SftInv
    OBVIOUS
<1>1. NoSweep \in Sweeps /\ Nowhere \in PlaceStates /\ 0 \in Places
    BY NoSweepTyped, PlacesOf DEF Nowhere, PlaceStates
<1>2. SftTypeOK
    <2>1. BuildTyped
        BY <1>1 DEF SftInit, BuildTyped, BuildRow, TryStatus, WorkerSteps
    <2>2. ImportTyped /\ PlaceTyped
        BY <1>1 DEF SftInit, ImportTyped, PlaceTyped, ImporterSteps
    <2>3. ItemsTyped /\ SweepTyped
        BY <1>1 DEF SftInit, ItemsTyped, SweepTyped, NoItems
    <2>4. QED
        BY <2>1, <2>2, <2>3, SftTypes
<1>3. BuildFits
    BY PlacesOf DEF SftInit, BuildFits, GivenUp
<1>4. ItemsFit /\ SourceFits
    BY PlacesOf DEF SftInit, ItemsFit, SourceFits, NoItems
<1>5. SweepsFit
    BY PlacesOf DEF SftInit, SweepsFit, MaintenanceFits, PurgeFinds, CleanupFits, NoSweep
<1>6. SuccessPublished /\ DatasetsStand
    BY DEF SftInit, SuccessPublished, DatasetsStand
<1>7. QED
    BY <1>2, <1>3, <1>4, <1>5, <1>6 DEF SftInv

LEMMA SftStays ==
    ASSUME SftInv, UNCHANGED sftVars
    PROVE  SftInv'
<1> USE DEF sftVars, importVars, buildVars, itemVars
<1>1. SftTypeOK'
    BY SftTypes, SftTypesNext
    DEF SftInv, ImportTyped, BuildTyped, PlaceTyped, ItemsTyped, SweepTyped
<1>2. BuildFits' /\ ItemsFit' /\ SourceFits' /\ SuccessPublished' /\ DatasetsStand'
    BY DEF SftInv, BuildFits, ItemsFit, SourceFits, SuccessPublished, DatasetsStand, Lies
<1>3. SweepsFit'
    BY DEF SftInv, SweepsFit, MaintenanceFits, PurgeFinds, CleanupFits, Lies
<1>4. QED
    BY <1>1, <1>2, <1>3 DEF SftInv

LEMMA SftKeeps == SftInv /\ SftNext => SftInv'
BY ImportKeeps, ArchiveKeeps, RequestBuild, ReviewKeeps, DependKeeps, ClaimBuildKeeps,
   FailUnclaimedKeeps, WorkBuildKeeps, SweepKeeps, RegisterKeeps, StartKeeps, AuthorizeKeeps,
   EndPurgeKeeps, EndReconcileKeeps, StopKeeps DEF SftNext

LEMMA SftInvariant == Spec => []SftInv
<1>1. Init => SftInv
    BY InitSft DEF Init
<1>2. SftInv /\ [Next]_vars => SftInv'
    BY SftKeeps, SftStays DEF Next, vars
<1>3. QED
    BY <1>1, <1>2, PTL DEF Spec

\* A dataset that may be used stands at its final path as its attempt
\* published it, its source outlives it, and what is purged is gone, for any
\* number of attempts and any number of importers: but for a source committed
\* under the items of reconciliation, or published again after the commit.
THEOREM DatasetsStandHolds == Spec => []DatasetsStand
<1>1. SftInv => DatasetsStand
    BY DEF SftInv
<1>2. QED
    BY <1>1, SftInvariant, PTL

\* Every row, directory and process, of adapters, of datasets and of
\* evaluations, is in one of the states the schema (models.py) and the code
\* know.
THEOREM ArtifactsTypeHolds == Spec => []ArtifactsTypeOK
<1>1. BundlesInv /\ SftInv /\ EvaluationInv => ArtifactsTypeOK
    BY DEF BundlesInv, SftInv, EvaluationInv, ArtifactsTypeOK
<1>2. QED
    BY <1>1, AdapterInvariant, SftInvariant, EvaluationInvariant, PTL
=============================================================================
