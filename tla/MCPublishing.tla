---------------------------- MODULE MCPublishing ----------------------------
(***************************************************************************)
(* The instance for TLC of the workers that publish under a lease what     *)
(* they have staged: bundles of training jobs (TrainingPublication), and   *)
(* artifacts and points of documents with the answers that rest on them    *)
(* (RagAnswers).  The two share no row and no file, so a behaviour is one  *)
(* of the one or of the other, and the processes of the one may have the   *)
(* names of those of the other: Symmetry permutes both.                    *)
(***************************************************************************)
EXTENDS MCTrainingPublication, RagAnswers

VARIABLE world  \* which of the two is explored

publishingVars == <<world, vars, ragVars>>

PublishingInit == world \in {"training", "knowledge"} /\ Init /\ RagInit

PublishingNext ==
    \/ world = "training" /\ Next /\ UNCHANGED <<world, ragVars>>
    \/ world = "knowledge" /\ RagNext /\ UNCHANGED <<world, vars>>

PublishingSpec == PublishingInit /\ [][PublishingNext]_publishingVars
=============================================================================
