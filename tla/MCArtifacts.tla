---------------------------- MODULE MCArtifacts ----------------------------
(***************************************************************************)
(* The instance for TLC of the datasets (SftBuild), of the adapters        *)
(* (AdapterReconcile with what it extends) and of their evaluations        *)
(* (AdapterEvaluation).  They meet in single rows, the dependency of an    *)
(* adapter on a dataset, the status of the adapter that is evaluated: each *)
(* of them has the others as its environment, so that one run explores     *)
(* them side by side, one world at a time, and not their product.          *)
(***************************************************************************)
EXTENDS AdapterReconcile, SftBuild, AdapterEvaluation

VARIABLE world  \* which of the three is explored

vars == <<world, adapterVars, reconcileVars, sftVars, evaluationVars>>

Init ==
    /\ world \in {"adapters", "datasets", "evaluations"}
    /\ AdapterInit
    /\ SftInit
    /\ EvaluationInit

Next ==
    \/ /\ world = "adapters" /\ AdapterNext
       /\ UNCHANGED <<world, sftVars, evaluationVars>>
    \/ /\ world = "datasets" /\ SftNext
       /\ UNCHANGED <<world, adapterVars, reconcileVars, evaluationVars>>
    \/ /\ world = "evaluations" /\ EvaluationNext
       /\ UNCHANGED <<world, adapterVars, reconcileVars, sftVars>>

Spec == Init /\ [][Next]_vars

\* Every row, directory and process is in one of the states the schema and
\* the code know, of adapters, of datasets and of evaluations.
ArtifactsTypeOK == AdapterTypeOK /\ SftTypeOK /\ EvaluationTypeOK
=============================================================================
